---- MODULE Spec2Model ----
(***************************************************************************)
(* Model of the trading decision and risk engine of okx_trading_bot:       *)
(* the tick loop of TradingEngine (engine.py), the AI trade gate           *)
(* (ai_assistant.py) and the configuration approval workflow               *)
(* (discord_bot.py + TradingEngine._apply_config_updates).                 *)
(*                                                                         *)
(* Numbers: prices, sizes and P&L are integers; confidences are in tenths  *)
(* (6 = 0.6); configuration values of the approval workflow are in tenths  *)
(* with a Python type tag.                                                 *)
(***************************************************************************)
EXTENDS Integers, Sequences, FiniteSets, TLC

\* ------------------------------------------------------------------ bounds
\* entries allowed in one run of the model (caps total_trades)
MaxTrades == 2
\* suggestion batches proposed in one run of the model (caps the id counter)
MaxBatches == 2
\* last clock value (hours) of the configuration workflow
MaxNow == 48

\* ------------------------------------------------------- program constants
\* default of trade_gating.min_confidence, in tenths
DefaultMinConfidence == 6
\* max_age_hours default of _prune_pending_suggestions
PendingTtlHours == 24
\* share of peak equity a position's risk may take (6%), in percent
MaxHeatPct == 6
\* default min_risk_reward_ratio, in tenths
MinRiskReward == 15
\* default min_stop_loss_pct / max_stop_loss_pct, in thousandths
MinStopPermille == 5
MaxStopPermille == 100

\* -------------------------------------------------------------- the inputs
Symbols == {"BTC-USDT", "ETH-USDT"}
\* last prices the ticker can report for a position entered at 100
Prices == {49, 100, 120}
\* free balances get_balance can return (0 is also its error value)
Balances == {0, 900}
\* all-time realized P&L found in the trades table at start
StoredPnl == {0, -100}
\* configured risk_management.max_positions
MaxPositionsChoices == {1, 2}

VARIABLES
    pc,               \* position of the engine task: init, loop, process, monitor, risk, exited, stopped
    running,          \* TradingEngine.running
    trading_paused,   \* TradingEngine.trading_paused
    active_pairs,     \* TradingEngine.active_pairs (list)
    restricted_pairs, \* TradingEngine.restricted_pairs (set)
    positions,        \* TradingEngine.positions, a dict in insertion order
    daily_pnl,        \* TradingEngine.daily_pnl
    total_trades,     \* TradingEngine.total_trades
    peak_equity,      \* RiskManager.peak_equity
    db_total_pnl,     \* SUM(pnl) of the closed rows of the trades table
    proc_queue,       \* symbols the for loop of _main_loop has still to process
    mon_queue,        \* symbols the for loop of _monitor_positions has still to visit
    trace,            \* what the last handler sent out, in order: orders, gate log, notifications
    halt_reason,      \* the last of the three places to set running to false: the daily-loss
                      \* branch, the emergency stop, the operator's stop command
    daily_breached,   \* daily_pnl has been at or below -max_daily_loss
    config,           \* TradingEngine.config (the live configuration)
    config_file,      \* the document stored at config_path
    pending,          \* DiscordNotifier.pending_suggestions
    next_id,          \* number of batch ids handed out
    now,              \* clock of the configuration workflow, hours
    approving,        \* approve commands waiting in their send after the callback
    applied_log,      \* history kept under SpecResolve: the pending batches an approval has applied
    gate_in,          \* input of the last evaluate_trade_signal call checked alone
    gate_out,         \* its result
    sig_in,           \* arguments and configuration of a _generate_signal call checked alone
    sig_out,          \* the TradingSignal it returned, or none
    size_in,          \* arguments of a calculate_position_size call checked alone
    size_out,         \* the size it returned, in 1/SizeScale
    gate_lock,        \* AIAssistant._gate_lock: 0 when free, else the call that holds it
    eval_pc,          \* position of each concurrent evaluate_trade_signal call
    research_running, \* TradingEngine.research_running
    research_tasks,   \* the _run_research tasks in flight, each created or running
    research_last,    \* how the last _run_research that ended came out: finished or raised
    val_in,           \* signal and open positions of a validate_trade call checked alone
    val_out,          \* what it returned
    ana_in,           \* history and settings of an _analyze_patterns call checked alone
    ana_out,          \* the report record it made for the pattern, or none
    agg_calls,        \* how often each record list has been given to _aggregate_research_summary
    agg_results,      \* the summaries returned for each record list
    agg_summary,      \* the summary dict the last call built
    rules_in,         \* the indicator readings handed to _generate_signal
    rules_out,        \* what it returned: a signal or none, the votes cast, whether it raised
    fetch_pc,         \* where PatternResearcher.run is: idle, symbols, timeframes, fetch
    fetch_syms,       \* the symbols the for loop of run has still to visit, the current one first
    fetch_tfs,        \* the timeframes still to visit for the current symbol, the current one first
    request_count,    \* request_count of run
    fetch,            \* used_requests, len(all_candles) and max_requests of the _fetch_history in progress
    skip_symbols,     \* PatternResearcher._skip_symbols
    skip_file,        \* the list in data/research_skip_symbols.json
    request_log,      \* the history requests the exchange client received: run, symbol, timeframe
    fetch_runs,       \* the number of runs started
    fetch_cfg         \* max_requests_per_run and the target bar count of the run

engineVars == <<pc, running, trading_paused, active_pairs, restricted_pairs, positions,
                daily_pnl, total_trades, peak_equity, db_total_pnl, proc_queue, mon_queue,
                halt_reason, daily_breached>>
workflowVars == <<pending, next_id, now, approving, applied_log>>
gateVars == <<gate_in, gate_out>>
lockVars == <<gate_lock, eval_pc>>
researchVars == <<research_running, research_tasks, research_last>>
validateVars == <<val_in, val_out>>
analysisVars == <<ana_in, ana_out>>
aggregateVars == <<agg_calls, agg_results, agg_summary>>
rulesVars == <<rules_in, rules_out>>
fetchVars == <<fetch_pc, fetch_syms, fetch_tfs, request_count, fetch, skip_symbols, skip_file,
               request_log, fetch_runs, fetch_cfg>>
unitVars == <<sig_in, sig_out, size_in, size_out, lockVars, researchVars, validateVars,
              analysisVars, aggregateVars, rulesVars,
              fetchVars>>
vars == <<engineVars, trace, config, config_file, workflowVars, gateVars, unitVars>>

\* ----------------------------------------------------------------- helpers
Abs(x) == IF x < 0 THEN -x ELSE x

RECURSIVE Remove(_, _)
\* [x for x in s if x != e]
Remove(s, e) ==
    IF s = <<>> THEN <<>>
    ELSE IF Head(s) = e THEN Remove(Tail(s), e)
    ELSE <<Head(s)>> \o Remove(Tail(s), e)

\* the dict self.positions: a sequence of Position records in insertion order
PosKeys(ps) == {ps[i].symbol : i \in DOMAIN ps}
PosGet(ps, s) == ps[CHOOSE i \in DOMAIN ps : ps[i].symbol = s]
RECURSIVE PosDel(_, _)
PosDel(ps, s) ==
    IF ps = <<>> THEN <<>>
    ELSE IF Head(ps).symbol = s THEN PosDel(Tail(ps), s)
    ELSE <<Head(ps)>> \o PosDel(Tail(ps), s)
\* self.positions[s] = p: replaces the value in place, or appends a new key
PosPut(ps, p) ==
    IF p.symbol \in PosKeys(ps)
    THEN [i \in DOMAIN ps |-> IF ps[i].symbol = p.symbol THEN p ELSE ps[i]]
    ELSE Append(ps, p)
RECURSIVE PosSymbols(_)
PosSymbols(ps) == IF ps = <<>> THEN <<>> ELSE <<Head(ps).symbol>> \o PosSymbols(Tail(ps))

\* events of trace
OrderEv(sym, side, type, purpose, reason) ==
    [ev |-> "order", symbol |-> sym, side |-> side, kind |-> type, what |-> purpose,
     reason |-> reason, approve |-> FALSE, conf |-> 0]
\* an order event with the amount of the order (kept in the field conf)
WithAmount(e, amount) == [e EXCEPT !.conf = amount]
\* `order` as _execute_trade holds it after place_order and wait_for_order_fill
OrderResultEv(sym, side, o) ==
    [ev |-> "order_result", symbol |-> sym, side |-> side, kind |-> o.kind, what |-> o.status,
     reason |-> "", approve |-> o.full, conf |-> 0]
\* the price get_ticker gave _monitor_positions (kept in the field conf)
TickerEv(sym, price) ==
    [ev |-> "ticker", symbol |-> sym, side |-> "", kind |-> "", what |-> "",
     reason |-> "", approve |-> FALSE, conf |-> price]
\* `order` as _close_position holds it after place_order
CloseResultEv(sym, res) ==
    [ev |-> "close_result", symbol |-> sym, side |-> "", kind |-> "", what |-> res,
     reason |-> "", approve |-> FALSE, conf |-> 0]
\* the row log_trade_close writes and the record learn_from_trade appends (pnl in conf)
DbCloseEv(pos, reason) ==
    [ev |-> "db_close", symbol |-> pos.symbol, side |-> pos.side, kind |-> "", what |-> "closed",
     reason |-> reason, approve |-> FALSE, conf |-> pos.pnl]
LearnEv(pos) ==
    [ev |-> "learn", symbol |-> pos.symbol, side |-> pos.side, kind |-> "", what |-> "",
     reason |-> "", approve |-> FALSE, conf |-> pos.pnl]
GateLogEv(sym, side, e) ==
    [ev |-> "gate_log", symbol |-> sym, side |-> side, kind |-> "", what |-> "",
     reason |-> e.reason, approve |-> e.approve, conf |-> e.confidence]
GateNotifyEv(sym, side, e) ==
    [ev |-> "gate_notify", symbol |-> sym, side |-> side, kind |-> "", what |-> "",
     reason |-> e.reason, approve |-> e.approve, conf |-> e.confidence]
\* the value _can_execute_trade returns to _process_symbol
CheckEv(sym, side, ok) ==
    [ev |-> "can_execute", symbol |-> sym, side |-> side, kind |-> "", what |-> "",
     reason |-> "", approve |-> ok, conf |-> 0]
\* the value get_balance returned to _sync_live_balance (in conf)
BalanceEv(bal) ==
    [ev |-> "balance", symbol |-> "", side |-> "", kind |-> "", what |-> "",
     reason |-> "", approve |-> FALSE, conf |-> bal]
NotifyEv(title, sym) ==
    [ev |-> "notify", symbol |-> sym, side |-> "", kind |-> "", what |-> title,
     reason |-> "", approve |-> FALSE, conf |-> 0]

OppositeSide(side) == IF side = "buy" THEN "sell" ELSE "buy"

\* ------------------------------------------------------------- the AI gate
\* Python's bool() of the JSON value under "approve"; a non-empty string is true
PyBool(tok) == tok \in {"true", "str_true", "str_false"}

\* answers of OllamaService.generate: None, or the stripped text
ApproveTokens == {"true", "false", "str_false", "missing"}
ConfTokens == {[t |-> "num", v |-> 3], [t |-> "num", v |-> 6], [t |-> "num", v |-> 9],
               [t |-> "missing", v |-> 0], [t |-> "str", v |-> 0]}
NoResponse == [kind |-> "none", approve |-> "missing", conf |-> [t |-> "missing", v |-> 0], keyword |-> FALSE]
EmptyResponse == [NoResponse EXCEPT !.kind = "empty"]
BadJson == [NoResponse EXCEPT !.kind = "badjson"]
JsonResponses == {[kind |-> "json", approve |-> a, conf |-> c, keyword |-> FALSE] :
                    a \in ApproveTokens, c \in ConfTokens}
TextResponses == {[NoResponse EXCEPT !.kind = "text", !.keyword = k] : k \in BOOLEAN}
Responses == {NoResponse, EmptyResponse, BadJson} \cup JsonResponses \cup TextResponses
\* the service as a call finds it: AIAssistant.use_ollama, OllamaService.available, the answer
Services == {[use_ollama |-> u, available |-> a, resp |-> r] :
               u \in BOOLEAN, a \in BOOLEAN, r \in Responses}

\* OllamaService.generate: None when the service is marked unavailable
Generate(svc) == IF ~svc.available THEN NoResponse ELSE svc.resp

\* float(data.get("confidence", 0)): raises on a value that is no number
ConfRaises(c) == c.t = "str"
ConfValue(c) == IF c.t = "num" THEN c.v ELSE 0

\* the fallback with the fail_open setting ignored
FallbackGatingOpen(sig_conf, cfg) ==
    [approve |-> TRUE, confidence |-> sig_conf, reason |-> "AI unavailable, fail-open enabled"]

FallbackGating(sig_conf, cfg) ==
    IF cfg.fail_open
    THEN [approve |-> TRUE, confidence |-> sig_conf, reason |-> "AI unavailable, fail-open enabled"]
    ELSE [approve |-> FALSE, confidence |-> 0, reason |-> "AI unavailable, hard-gate rejection"]

\* the answer was parsed: the branch of the JSON object, or the keyword match on text
ParsedGating(sig_conf, cfg, r) ==
    IF r.kind = "json"
    THEN [approve |-> PyBool(r.approve) /\ ConfValue(r.conf) >= cfg.min_confidence,
          confidence |-> ConfValue(r.conf), reason |-> "AI evaluation"]
    ELSE [approve |-> r.keyword /\ sig_conf >= cfg.min_confidence,
          confidence |-> sig_conf, reason |-> "AI text"]

EvaluateTradeSignal(sig_conf, cfg, svc) ==
    IF ~cfg.gating_enabled \/ ~cfg.ai_enabled
    THEN [approve |-> TRUE, confidence |-> 10, reason |-> "AI gating disabled"]
    ELSE IF svc.use_ollama /\ svc.available
    THEN LET r == Generate(svc) IN
         IF r.kind \in {"none", "empty"} THEN FallbackGating(sig_conf, cfg)
         ELSE IF r.kind = "badjson" \/ (r.kind = "json" /\ ConfRaises(r.conf))
         THEN FallbackGating(sig_conf, cfg)
         ELSE ParsedGating(sig_conf, cfg, r)
    ELSE FallbackGating(sig_conf, cfg)

\* ------------------------------------------------------------ risk manager
\* RiskManager._check_correlation_risk: every path returns True
CheckCorrelationRisk(sym) == TRUE

\* RiskManager._check_portfolio_heat: only the new position's risk is counted
CheckPortfolioHeat(sig, peak) ==
    ~(sig.position_size * Abs(sig.entry_price - sig.stop_loss) * 100 > peak * MaxHeatPct)

\* RiskManager._check_volatility_limits: a zero entry price raises, and the handler returns True
CheckVolatilityLimits(sig) ==
    IF sig.entry_price = 0 THEN TRUE
    ELSE LET risk == Abs(sig.entry_price - sig.stop_loss) IN
         /\ ~(risk * 1000 < MinStopPermille * sig.entry_price)
         /\ ~(risk * 1000 > MaxStopPermille * sig.entry_price)

ValidateTrade(sig, peak) ==
    LET risk == Abs(sig.entry_price - sig.stop_loss)
        reward == Abs(sig.take_profit - sig.entry_price)
    IN /\ ~(sig.position_size <= 0)
       /\ risk # 0
       /\ ~(reward * 10 < MinRiskReward * risk)
       /\ CheckCorrelationRisk(sig.symbol)
       /\ CheckPortfolioHeat(sig, peak)
       /\ CheckVolatilityLimits(sig)

\* ------------------------------------------------------------- the engine
\* signals _generate_signal hands to the execution path for a price of 100
Signals(sym) ==
    {[symbol |-> sym, action |-> "buy", confidence |-> c, entry_price |-> 100,
      stop_loss |-> 95, take_profit |-> 110, position_size |-> 1] : c \in {8}}
    \cup {[symbol |-> sym, action |-> "sell", confidence |-> 8, entry_price |-> 100,
           stop_loss |-> 105, take_profit |-> 90, position_size |-> 1]}

\* what place_order and wait_for_order_fill leave in `order` on the entry path
EntryResults ==
    {[kind |-> "none", status |-> "", full |-> FALSE],
     [kind |-> "restricted", status |-> "rejected", full |-> FALSE]}
    \cup {[kind |-> "order", status |-> st, full |-> f] :
            st \in {"filled", "closed", "open"}, f \in BOOLEAN}
\* a fill test that takes every order the exchange accepted for filled
EntryFilledAnyOrder(o) == o.kind = "order"
\* is_filled of _execute_trade
EntryFilled(o) == o.kind = "order" /\ (o.status \in {"filled", "closed"} \/ o.full)

\* what place_order returns on the close path: None, an order with this status, or
\* the record of a rejection with the code 51155 (status rejected)
CloseResults == {"none", "filled", "closed", "open", "rejected"}
\* a test that takes whatever came back for a confirmation
CloseConfirmedAlways(res) == TRUE
\* the test of _close_position on the returned order
CloseConfirmed(res) == res = "filled"

\* services the engine's gate calls meet
EngineServices ==
    {[use_ollama |-> TRUE, available |-> a, resp |-> r] :
       a \in {TRUE},
       r \in {NoResponse,
              [kind |-> "json", approve |-> "true", conf |-> [t |-> "num", v |-> 9], keyword |-> FALSE],
              [kind |-> "json", approve |-> "false", conf |-> [t |-> "num", v |-> 9], keyword |-> FALSE]}}

\* the part of the engine that _close_position and _sync_live_balance work on
EngineState ==
    [positions |-> positions, daily_pnl |-> daily_pnl, db_total_pnl |-> db_total_pnl,
     peak_equity |-> peak_equity, config |-> config, daily_breached |-> daily_breached,
     restricted_pairs |-> restricted_pairs, active_pairs |-> active_pairs,
     total_trades |-> total_trades, trace |-> <<>>]

Apply(st) ==
    /\ positions' = st.positions
    /\ daily_pnl' = st.daily_pnl
    /\ db_total_pnl' = st.db_total_pnl
    /\ peak_equity' = st.peak_equity
    /\ config' = st.config
    /\ daily_breached' = st.daily_breached
    /\ restricted_pairs' = st.restricted_pairs
    /\ active_pairs' = st.active_pairs
    /\ total_trades' = st.total_trades
    /\ trace' = st.trace

Emit(st, e) == [st EXCEPT !.trace = Append(@, e)]

\* _sync_live_balance with RiskManager.update_initial_capital
\* a sync that reads the balance and keeps the estimate it had
SyncLiveBalanceStale(st, bal) == Emit(st, BalanceEv(bal))
SyncLiveBalance(st, bal) ==
    LET read == Emit(st, BalanceEv(bal)) IN
    IF bal > 0
    THEN [read EXCEPT !.peak_equity = bal, !.config = [@ EXCEPT !.initial_capital = bal]]
    ELSE read

DailyLossReached(pnl, cfg) == pnl <= -cfg.max_daily_loss

\* a close that tells the learning subsystem nothing
LearnNothing(st, pos) == st

\* AIAssistant.learn_from_trade: nothing is recorded when the assistant is disabled
LearnFromTrade(st, pos) == IF st.config.ai_enabled THEN Emit(st, LearnEv(pos)) ELSE st

\* _close_position: the closing order, and on a confirmed close the bookkeeping
ClosePosition(st, pos, reason, res, bal) ==
    LET ordered == Emit(Emit(st, WithAmount(OrderEv(pos.symbol, OppositeSide(pos.side), "market",
                                                    "close", reason), pos.size)),
                        CloseResultEv(pos.symbol, res))
        credited == st.daily_pnl + pos.pnl
    IN IF CloseConfirmed(res)
       THEN LearnFromTrade(
              SyncLiveBalance(
                Emit(Emit([ordered EXCEPT !.daily_pnl = credited,
                                          !.positions = PosDel(@, pos.symbol),
                                          !.db_total_pnl = @ + pos.pnl,
                                          !.daily_breached = @ \/ DailyLossReached(credited, st.config)],
                          DbCloseEv(pos, reason)),
                     NotifyEv("Position Closed", pos.symbol)),
                bal),
              pos)
       ELSE ordered

RECURSIVE CloseEach(_, _, _, _, _)
CloseEach(st, syms, reason, resOf, balOf) ==
    IF syms = <<>> THEN st
    ELSE CloseEach(ClosePosition(st, PosGet(st.positions, Head(syms)), reason,
                                 resOf[Head(syms)], balOf[Head(syms)]),
                   Tail(syms), reason, resOf, balOf)

\* _close_all_positions: one _close_position per position of the snapshot
CloseAllPositions(st, reason, resOf, balOf) ==
    CloseEach(st, PosSymbols(st.positions), reason, resOf, balOf)

\* the checks before the gate without the look at the ledger
PreGateOkNoLedger(sig, bal) ==
    /\ sig.action # "sell"
    /\ ~DailyLossReached(daily_pnl, config)
    /\ ~(Len(positions) >= config.max_positions)
    /\ ~(bal < sig.position_size * sig.entry_price)
    /\ ValidateTrade(sig, peak_equity)

\* the checks without the cap on the number of positions
PreGateOkNoCap(sig, bal) ==
    /\ sig.symbol \notin PosKeys(positions)
    /\ ~(sig.action = "sell" /\ sig.symbol \notin PosKeys(positions))
    /\ ~DailyLossReached(daily_pnl, config)
    /\ ~(bal < sig.position_size * sig.entry_price)
    /\ ValidateTrade(sig, peak_equity)

\* the checks without the spot-only rule
PreGateOkShortsAllowed(sig, bal) ==
    /\ sig.symbol \notin PosKeys(positions)
    /\ ~DailyLossReached(daily_pnl, config)
    /\ ~(Len(positions) >= config.max_positions)
    /\ ~(bal < sig.position_size * sig.entry_price)
    /\ ValidateTrade(sig, peak_equity)

\* the checks of _can_execute_trade that come before the AI gate
PreGateOk(sig, bal) ==
    /\ sig.symbol \notin PosKeys(positions)
    /\ ~(sig.action = "sell" /\ sig.symbol \notin PosKeys(positions))
    /\ ~DailyLossReached(daily_pnl, config)
    /\ ~(Len(positions) >= config.max_positions)
    /\ ~(bal < sig.position_size * sig.entry_price)
    /\ ValidateTrade(sig, peak_equity)

\* the AI hard-gating block of _can_execute_trade: log, notification, veto;
\* logged is false when the append to logs/ai_gating.log raised, which
\* _log_ai_gate reports to the application log and passes over
GateEvents(sig, e, logged) ==
    IF config.gating_enabled
    THEN (IF logged THEN <<GateLogEv(sig.symbol, sig.action, e)>> ELSE <<>>)
         \o <<GateNotifyEv(sig.symbol, sig.action, e)>>
         \o (IF ~e.approve THEN <<NotifyEv("AI Trade Gate Blocked", sig.symbol)>> ELSE <<>>)
    ELSE <<>>
\* a gate whose rejection is logged but does not stop the trade
GateNeverBlocks(e) == FALSE
GateBlocks(e) == config.gating_enabled /\ ~e.approve

NewPosition(sig) ==
    [symbol |-> sig.symbol, side |-> sig.action, size |-> sig.position_size,
     entry_price |-> sig.entry_price, current_price |-> sig.entry_price,
     stop_loss |-> sig.stop_loss, take_profit |-> sig.take_profit, pnl |-> 0]

\* _place_exit_orders
PlaceExitOrders(st, pos) ==
    Emit(Emit(st, WithAmount(OrderEv(pos.symbol, OppositeSide(pos.side), "stop_market", "stop", ""),
                             pos.size)),
         WithAmount(OrderEv(pos.symbol, OppositeSide(pos.side), "limit", "take_profit", ""),
                    pos.size))

\* the end of the for loop of _main_loop leads into _monitor_positions
Advance(rest, ps) ==
    /\ proc_queue' = rest
    /\ IF rest = <<>>
       THEN pc' = "monitor" /\ mon_queue' = PosSymbols(ps)
       ELSE pc' = "process" /\ mon_queue' = <<>>

PairLists(S) ==
    {q \in UNION {[1..n -> S] : n \in 0..Cardinality(S)} :
        \A i, j \in DOMAIN q : i # j => q[i] # q[j]}

\* _execute_trade, from the order placement on; o is the order as the fill test sees it
ExecuteTrade(st, sig, o, bal) ==
    IF sig.symbol \in st.restricted_pairs THEN st
    ELSE LET placed == Emit(Emit(st, WithAmount(OrderEv(sig.symbol, sig.action, "market", "entry", ""),
                                                sig.position_size)),
                            OrderResultEv(sig.symbol, sig.action, o)) IN
         IF o.kind = "restricted"
         THEN Emit([placed EXCEPT !.restricted_pairs = @ \cup {sig.symbol},
                                  !.active_pairs = Remove(@, sig.symbol)],
                   NotifyEv("Restricted Pair", sig.symbol))
         ELSE IF EntryFilled(o)
         THEN SyncLiveBalance(
                Emit(PlaceExitOrders([placed EXCEPT !.positions = PosPut(@, NewPosition(sig)),
                                                    !.total_trades = @ + 1],
                                     NewPosition(sig)),
                     NotifyEv("Trade Executed", sig.symbol)),
                bal)
         ELSE Emit(placed, NotifyEv("Order Not Filled", sig.symbol))

\* _process_symbol from the signal on: _can_execute_trade, then _execute_trade
HandleSignal(st, sig, bal, svc, logged, o, bal2) ==
    IF ~PreGateOk(sig, bal) THEN Emit(st, CheckEv(sig.symbol, sig.action, FALSE))
    ELSE LET e == EvaluateTradeSignal(sig.confidence, config, svc)
             gated == [st EXCEPT !.trace = @ \o GateEvents(sig, e, logged)]
         IN IF GateBlocks(e) THEN Emit(gated, CheckEv(sig.symbol, sig.action, FALSE))
            ELSE ExecuteTrade(Emit(gated, CheckEv(sig.symbol, sig.action, TRUE)), sig, o, bal2)

\* the document at config_path; k is the api key written in it ("" when it is left to .env)
ConfigDocument(mp, g, ai, fo, k) ==
    [initial_capital |-> 1000, max_daily_loss |-> 50, max_drawdown |-> 100,
     max_positions |-> mp, ai_enabled |-> ai, gating_enabled |-> g,
     fail_open |-> fo, min_confidence |-> DefaultMinConfidence,
     rsi_period |-> [t |-> "int", v |-> 140],
     bollinger_std_dev |-> [t |-> "float", v |-> 20],
     enable_rsi |-> [t |-> "bool", v |-> 10],
     api_key |-> k]

\* _load_config: the document, with the credentials of the environment laid over it
LoadConfig(doc, env_key) ==
    [doc EXCEPT !.api_key = IF env_key # "" THEN env_key ELSE @]

\* the engine as __init__ leaves it
InitEngine ==
    /\ pc = "init"
    /\ running = FALSE
    /\ trading_paused = FALSE
    /\ active_pairs = <<>>
    /\ restricted_pairs = {}
    /\ positions = <<>>
    /\ daily_pnl = 0
    /\ total_trades = 0
    /\ proc_queue = <<>>
    /\ mon_queue = <<>>
    /\ trace = <<>>
    /\ halt_reason = "none"
    /\ daily_breached = FALSE
    /\ peak_equity = config.initial_capital

InitWorkflow ==
    /\ pending = <<>>
    /\ next_id = 0
    /\ now = 0
    /\ approving = {}
    /\ applied_log = {}

NoGateCall ==
    [done |-> FALSE, sig_conf |-> 0,
     cfg |-> [ai_enabled |-> FALSE, gating_enabled |-> FALSE, fail_open |-> FALSE,
              min_confidence |-> DefaultMinConfidence],
     svc |-> [use_ollama |-> FALSE, available |-> FALSE, resp |-> NoResponse]]
NoGateResult == [approve |-> FALSE, confidence |-> 0, reason |-> ""]

\* no _generate_signal call is under check
NoSignalCall ==
    [price |-> 0, atr |-> 0, stop_loss_multiplier |-> 0, take_profit_multiplier |-> 0,
     buy_votes |-> 0, sell_votes |-> 0, ai_action |-> "none", ai_score |-> 0,
     signal_confirmation |-> FALSE, max_risk_amount |-> 0, peak |-> 0, done |-> TRUE]
NoSignal ==
    [produced |-> FALSE, action |-> "none", entry_price |-> 0, stop_loss |-> 0,
     take_profit |-> 0, position_size |-> 0]
\* no calculate_position_size call is under check
NoSizeCall == [entry_price |-> 0, stop_loss |-> 0, max_risk |-> 0, peak |-> 0, done |-> TRUE]
InitSignalIdle ==
    /\ sig_in = NoSignalCall
    /\ sig_out = NoSignal
InitSizeIdle ==
    /\ size_in = NoSizeCall
    /\ size_out = 0
\* the evaluate_trade_signal calls that may be in flight together
EvalCalls == {1, 2, 3}
InitLockIdle ==
    /\ gate_lock = 0
    /\ eval_pc = [c \in EvalCalls |-> "idle"]
InitResearchIdle ==
    /\ research_running = FALSE
    /\ research_tasks = <<>>
    /\ research_last = "none"
\* no validate_trade call is under check
NoValidateCall ==
    [symbol |-> "", action |-> "", entry_price |-> 0, stop_loss |-> 0, take_profit |-> 0,
     take_profit_multiplier |-> 0, position_size |-> 0, peak |-> 0, open |-> {},
     done |-> TRUE]
InitValidateIdle ==
    /\ val_in = NoValidateCall
    /\ val_out = FALSE
\* no _analyze_patterns call is under check
NoAnalysisCall ==
    [pattern_name |-> "", bars |-> 0, up |-> 0, min_occurrences |-> 0, done |-> TRUE]
NoReport ==
    [emitted |-> FALSE, occurrences |-> 0, successes |-> 0, sample_size |-> 0,
     return_sum |-> 0]
InitAnalysisIdle ==
    /\ ana_in = NoAnalysisCall
    /\ ana_out = NoReport
\* the record lists a research summary is asked for, as get_recent_pattern_research
\* returns them; success_rate in percent, avg_return in 1/10000
ResearchRecord(p, t, o, s, r) ==
    [pattern_name |-> p, timeframe |-> t, occurrences |-> o, success_rate |-> s,
     avg_return |-> r]
RecordLists ==
    <<  <<>>,
        <<ResearchRecord("hammer", "1m", 25, 60, 20)>>,
        <<ResearchRecord("hammer", "1m", 25, 60, 20), ResearchRecord("hammer", "1m", 30, 50, -10)>>,
        <<ResearchRecord("hammer", "1m", 30, 50, -10), ResearchRecord("doji", "5m", 20, 40, 0),
          ResearchRecord("hammer", "1m", 25, 60, 20)>>,
        <<ResearchRecord("doji", "5m", 0, 0, 0)>>,
        <<ResearchRecord("doji", "5m", 20, 40, 0), ResearchRecord("hammer", "5m", 40, 70, 30),
          ResearchRecord("hammer", "1m", 25, 60, 20)>>  >>
InitAggregateIdle ==
    /\ agg_calls = [i \in DOMAIN RecordLists |-> 0]
    /\ agg_results = [i \in DOMAIN RecordLists |-> {}]
    /\ agg_summary = <<>>
\* _generate_signal seen rule by rule: no call made yet
NoRulesCall ==
    [computed |-> TRUE, rsi |-> "flat", macd |-> "flat", bb |-> "flat",
     stochastic_enabled |-> FALSE, stoch |-> "flat", ai_action |-> "none", ai_score |-> 0,
     signal_confirmation |-> FALSE, done |-> TRUE]
NoRulesResult ==
    [raised |-> FALSE, produced |-> FALSE, action |-> "none", buy_votes |-> 0, sell_votes |-> 0]
InitRulesIdle ==
    /\ rules_in = NoRulesCall
    /\ rules_out = NoRulesResult
NoFetch == [used |-> 0, candles |-> 0, budget |-> 0]
InitFetchIdle ==
    /\ fetch_pc = "idle"
    /\ fetch_syms = <<>>
    /\ fetch_tfs = <<>>
    /\ request_count = 0
    /\ fetch = NoFetch
    /\ skip_symbols = {}
    /\ skip_file = {}
    /\ request_log = <<>>
    /\ fetch_runs = 0
    /\ fetch_cfg = [max_requests |-> 0, target_candles |-> 0]
InitUnitsIdle ==
    /\ InitSignalIdle
    /\ InitSizeIdle
    /\ InitLockIdle
    /\ InitResearchIdle
    /\ InitValidateIdle
    /\ InitAnalysisIdle
    /\ InitAggregateIdle
    /\ InitRulesIdle
    /\ InitFetchIdle

InitGateIdle ==
    /\ gate_in = NoGateCall
    /\ gate_out = NoGateResult

Init ==
    /\ db_total_pnl \in StoredPnl
    /\ \E mp \in MaxPositionsChoices, g \in BOOLEAN, fo \in BOOLEAN :
         /\ g \/ ~fo
         /\ config_file = [doc |-> ConfigDocument(mp, g, TRUE, fo, ""), complete |-> TRUE]
    /\ config = LoadConfig(config_file.doc, "env-key")
    /\ InitEngine
    /\ InitWorkflow
    /\ InitGateIdle
    /\ InitUnitsIdle

\* TradingEngine.start up to the call of _main_loop
Start ==
    /\ pc = "init"
    /\ \E bal \in Balances : Apply(SyncLiveBalance(EngineState, bal))
    /\ running' = TRUE
    /\ pc' = "loop"
    /\ UNCHANGED <<trading_paused, proc_queue, mon_queue, halt_reason, config_file,
                   workflowVars, gateVars, unitVars>>

\* the while test of _main_loop, _update_trading_pairs when due, the pause test
LoopTop ==
    /\ pc = "loop"
    /\ IF ~running
       THEN /\ pc' = "exited"
            /\ trace' = <<>>
            /\ UNCHANGED <<active_pairs, proc_queue, mon_queue>>
       ELSE \E pairs \in {active_pairs} \cup PairLists(Symbols \ restricted_pairs) :
            /\ active_pairs' = pairs
            /\ trace' = <<>>
            /\ Advance(IF trading_paused THEN <<>> ELSE pairs, positions)
    /\ UNCHANGED <<running, trading_paused, restricted_pairs, positions, daily_pnl,
                   total_trades, peak_equity, db_total_pnl, halt_reason, daily_breached,
                   config, config_file, workflowVars, gateVars, unitVars>>

\* the fills the model still lets the exchange report (caps total_trades)
EntryResultsNow == IF total_trades < MaxTrades THEN EntryResults
                   ELSE {o \in EntryResults : ~EntryFilled(o)}
NoOrder == [kind |-> "none", status |-> "", full |-> FALSE]
NoService == [use_ollama |-> FALSE, available |-> FALSE, resp |-> NoResponse]

\* _process_symbol for the next symbol of the for loop; the inputs are drawn as far as
\* the handler gets to read them
ProcessSymbol ==
    /\ pc = "process" /\ proc_queue # <<>>
    /\ \/ \* too few candles, no signal, or an error: nothing is done
          /\ Apply(EngineState)
          /\ Advance(Tail(proc_queue), positions)
       \/ \E sig \in Signals(Head(proc_queue)), bal \in Balances :
            IF ~PreGateOk(sig, bal)
            THEN /\ Apply(HandleSignal(EngineState, sig, bal, NoService, TRUE, NoOrder, 0))
                 /\ Advance(Tail(proc_queue), positions)
            ELSE \E svc \in (IF config.gating_enabled THEN EngineServices ELSE {NoService}),
                    logged \in (IF config.gating_enabled THEN BOOLEAN ELSE {TRUE}) :
                 IF GateBlocks(EvaluateTradeSignal(sig.confidence, config, svc))
                 THEN /\ Apply(HandleSignal(EngineState, sig, bal, svc, logged, NoOrder, 0))
                      /\ Advance(Tail(proc_queue), positions)
                 ELSE \E o \in EntryResultsNow :
                      \E bal2 \in (IF EntryFilled(o) THEN Balances ELSE {0}) :
                        LET st == HandleSignal(EngineState, sig, bal, svc, logged, o, bal2) IN
                        /\ Apply(st)
                        /\ Advance(Tail(proc_queue), st.positions)
    /\ UNCHANGED <<running, trading_paused, halt_reason, config_file, workflowVars, gateVars, unitVars>>

PositionPnl(pos, price) ==
    IF pos.side = "buy" THEN (price - pos.entry_price) * pos.size
    ELSE (pos.entry_price - price) * pos.size

\* an exit check that knows the stop only
ExitReasonStopOnly(pos) ==
    IF pos.side = "buy" /\ pos.current_price <= pos.stop_loss THEN "Stop loss triggered"
    ELSE IF pos.side = "sell" /\ pos.current_price >= pos.stop_loss THEN "Stop loss triggered"
    ELSE ""

\* _check_position_exit: the reason it closes for, "" when it does not close
ExitReason(pos) ==
    IF pos.side = "buy" /\ pos.current_price <= pos.stop_loss THEN "Stop loss triggered"
    ELSE IF pos.side = "sell" /\ pos.current_price >= pos.stop_loss THEN "Stop loss triggered"
    ELSE IF pos.side = "buy" /\ pos.current_price >= pos.take_profit THEN "Take profit triggered"
    ELSE IF pos.side = "sell" /\ pos.current_price <= pos.take_profit THEN "Take profit triggered"
    ELSE ""

\* one round of the for loop of _monitor_positions
MonitorOne(st, sym, price, res, bal) ==
    LET pos == PosGet(st.positions, sym)
        marked == [pos EXCEPT !.current_price = price, !.pnl = PositionPnl(pos, price)]
        st1 == Emit([st EXCEPT !.positions = PosPut(@, marked)], TickerEv(sym, price))
    IN IF ExitReason(marked) # ""
       THEN ClosePosition(st1, marked, ExitReason(marked), res, bal)
       ELSE st1

MonitorPosition ==
    /\ pc = "monitor" /\ mon_queue # <<>>
    /\ \/ \* get_ticker raised: logged, the position is left as it is
          Apply(EngineState)
       \/ \E price \in Prices :
            LET pos == PosGet(positions, Head(mon_queue))
                hit == ExitReason([pos EXCEPT !.current_price = price]) # ""
            IN \E res \in (IF hit THEN CloseResults ELSE {"none"}) :
               \E bal \in (IF hit /\ CloseConfirmed(res) THEN Balances ELSE {0}) :
                 Apply(MonitorOne(EngineState, Head(mon_queue), price, res, bal))
    /\ mon_queue' = Tail(mon_queue)
    /\ UNCHANGED <<pc, running, trading_paused, proc_queue, halt_reason, config_file,
                   workflowVars, gateVars, unitVars>>

\* _risk_checks: the daily-loss branch, then the emergency-stop branch
RiskChecksState(st, resOf, balOf) ==
    LET daily == DailyLossReached(st.daily_pnl, st.config)
        st1 == IF daily THEN Emit(st, NotifyEv("Daily Loss Limit Reached", "")) ELSE st
        draw == st.db_total_pnl <= -st.config.max_drawdown
    IN IF draw
       THEN CloseAllPositions(Emit(st1, NotifyEv("Emergency Stop Triggered", "")),
                              "Bot shutdown", resOf, balOf)
       ELSE st1

\* the positions an emergency stop of this risk check will try to close
DrawdownCloses == IF db_total_pnl <= -config.max_drawdown THEN PosKeys(positions) ELSE {}

RiskChecks ==
    /\ pc = "monitor" /\ mon_queue = <<>>
    /\ \E resOf \in [DrawdownCloses -> CloseResults] :
       \E balOf \in [{s \in DrawdownCloses : CloseConfirmed(resOf[s])} -> Balances] :
          Apply(RiskChecksState(EngineState, resOf, [s \in DrawdownCloses |->
                                   IF CloseConfirmed(resOf[s]) THEN balOf[s] ELSE 0]))
    /\ LET daily == DailyLossReached(daily_pnl, config)
           draw == db_total_pnl <= -config.max_drawdown
       IN /\ running' = (running /\ ~daily /\ ~draw)
          /\ halt_reason' = IF draw THEN "drawdown"
                            ELSE IF daily THEN "daily_loss" ELSE halt_reason
    /\ pc' = "loop"
    /\ UNCHANGED <<trading_paused, proc_queue, mon_queue, config_file, workflowVars, gateVars, unitVars>>

\* TradingBotManager.shutdown -> TradingEngine.stop, once _main_loop has returned
EngineStop ==
    /\ pc = "exited"
    /\ \E resOf \in [PosKeys(positions) -> CloseResults] :
       \E balOf \in [{s \in PosKeys(positions) : CloseConfirmed(resOf[s])} -> Balances] :
          Apply(Emit(CloseAllPositions(EngineState, "Bot shutdown", resOf,
                                       [s \in PosKeys(positions) |->
                                          IF CloseConfirmed(resOf[s]) THEN balOf[s] ELSE 0]),
                     NotifyEv("Trading Bot Stopped", "")))
    /\ running' = FALSE
    /\ pc' = "stopped"
    /\ UNCHANGED <<trading_paused, proc_queue, mon_queue, halt_reason, config_file,
                   workflowVars, gateVars, unitVars>>

EngineAlive == pc \notin {"init", "stopped"}

\* the operator's pause, resume and stop commands
PauseTrading ==
    /\ EngineAlive /\ ~trading_paused
    /\ trading_paused' = TRUE
    /\ trace' = <<>>
    /\ UNCHANGED <<pc, running, active_pairs, restricted_pairs, positions, daily_pnl,
                   total_trades, peak_equity, db_total_pnl, proc_queue, mon_queue,
                   halt_reason, daily_breached, config, config_file, workflowVars, gateVars, unitVars>>

ResumeTrading ==
    /\ EngineAlive /\ trading_paused
    /\ trading_paused' = FALSE
    /\ trace' = <<>>
    /\ UNCHANGED <<pc, running, active_pairs, restricted_pairs, positions, daily_pnl,
                   total_trades, peak_equity, db_total_pnl, proc_queue, mon_queue,
                   halt_reason, daily_breached, config, config_file, workflowVars, gateVars, unitVars>>

RequestShutdown ==
    /\ EngineAlive /\ running
    /\ running' = FALSE
    /\ halt_reason' = "operator"
    /\ trace' = <<>>
    /\ UNCHANGED <<pc, trading_paused, active_pairs, restricted_pairs, positions, daily_pnl,
                   total_trades, peak_equity, db_total_pnl, proc_queue, mon_queue,
                   daily_breached, config, config_file, workflowVars, gateVars, unitVars>>

Next ==
    \/ Start
    \/ LoopTop
    \/ ProcessSymbol
    \/ MonitorPosition
    \/ RiskChecks
    \/ EngineStop
    \/ PauseTrading
    \/ ResumeTrading
    \/ RequestShutdown

Spec == Init /\ [][Next]_vars

\* ------------------------------------------------------------------ claims
EntryOrders(tr) == {k \in DOMAIN tr : tr[k].ev = "order" /\ tr[k].what = "entry"}
CloseOrders(tr) == {k \in DOMAIN tr : tr[k].ev = "order" /\ tr[k].what = "close"}
Notified(tr, title) == \E k \in DOMAIN tr : tr[k].ev = "notify" /\ tr[k].what = title

\* C1: the ledger never holds two positions of one symbol, and a handler places an
\* entry order only for a symbol that had no position when the handler began; a
\* signal for an occupied symbol gets can_execute = false.
C1_OnePositionPerSymbol ==
    [][/\ \A i, j \in DOMAIN positions' :
            positions'[i].symbol = positions'[j].symbol => i = j
       /\ \A k \in DOMAIN trace' :
            /\ (k \in EntryOrders(trace') => trace'[k].symbol \notin PosKeys(positions))
            /\ (trace'[k].ev = "can_execute" /\ trace'[k].symbol \in PosKeys(positions)
                  => ~trace'[k].approve)]_vars

\* a signal for a symbol with a position was refused and no order was placed
C1_Witness ==
    \E k \in DOMAIN trace :
        /\ trace[k].ev = "can_execute" /\ ~trace[k].approve /\ trace[k].side = "buy"
        /\ trace[k].symbol \in PosKeys(positions)
        /\ EntryOrders(trace) = {}
        /\ Len(positions) < config.max_positions

\* C2: after the daily-loss breaker has fired (and no emergency stop with it), no
\* entry order is placed and no closing order is submitted for the open positions.
C2_DailyBreachKeepsPositions ==
    halt_reason = "daily_loss" => EntryOrders(trace) = {} /\ CloseOrders(trace) = {}

\* C3: once daily_pnl has been at or below -max_daily_loss, no entry order is placed.
C3_NoEntryAfterDailyBreach ==
    daily_breached => EntryOrders(trace) = {}

\* C4: a risk check that finds the total P&L at or below -max_drawdown submits a closing
\* order for every open position, leaves the ledger empty and running false, and no
\* entry order is placed after it.
C4_DrawdownLiquidatesAndHalts ==
    [][/\ Notified(trace', "Emergency Stop Triggered") =>
            /\ \A s \in PosKeys(positions) :
                 \E k \in CloseOrders(trace') : trace'[k].symbol = s
            /\ positions' = <<>>
            /\ ~running'
       /\ halt_reason = "drawdown" => EntryOrders(trace') = {}]_vars

\* C6: with trade gating enabled, every entry order of a handler comes after a gate
\* decision with approve = true for the same symbol and action, made in the same
\* handler, and a handler whose gate decision was approve = false places no order.
C6_EntryOnlyAfterGateApproval ==
    config.gating_enabled =>
       /\ \A k \in EntryOrders(trace) :
            \E j \in 1..(k - 1) :
               /\ trace[j].ev = "gate_notify" /\ trace[j].approve
               /\ trace[j].symbol = trace[k].symbol /\ trace[j].side = trace[k].side
       /\ (\E j \in DOMAIN trace : trace[j].ev = "gate_notify" /\ ~trace[j].approve)
             => \A k \in DOMAIN trace : trace[k].ev # "order"

\* the gate approved a signal and its entry order was placed
C6_Witness ==
    /\ config.gating_enabled
    /\ EntryOrders(trace) # {}
    /\ \E j \in DOMAIN trace : trace[j].ev = "gate_notify" /\ trace[j].approve

\* ------------------------------------------- the gate decision on its own
\* inputs of one call of AIAssistant.evaluate_trade_signal
GateConfigs ==
    {[ai_enabled |-> ai, gating_enabled |-> g, fail_open |-> fo,
      min_confidence |-> DefaultMinConfidence] :
       ai \in BOOLEAN, g \in BOOLEAN, fo \in BOOLEAN}
GateCalls ==
    {[done |-> FALSE, sig_conf |-> c, cfg |-> cfg, svc |-> svc] :
       c \in {5, 8}, cfg \in GateConfigs, svc \in Services}

InitGate ==
    /\ db_total_pnl = 0
    /\ config_file = [doc |-> ConfigDocument(1, TRUE, TRUE, FALSE, ""), complete |-> TRUE]
    /\ config = LoadConfig(config_file.doc, "env-key")
    /\ InitEngine
    /\ InitWorkflow
    /\ gate_in \in GateCalls
    /\ gate_out = NoGateResult
    /\ InitUnitsIdle

\* one call of evaluate_trade_signal
EvaluateCall ==
    /\ ~gate_in.done
    /\ gate_in' = [gate_in EXCEPT !.done = TRUE]
    /\ gate_out' = EvaluateTradeSignal(gate_in.sig_conf, gate_in.cfg, gate_in.svc)
    /\ UNCHANGED <<engineVars, trace, config, config_file, workflowVars, unitVars>>

NextGate == EvaluateCall
SpecGate == InitGate /\ [][NextGate]_vars

\* the gate is in force for the call: the condition of the first branch is false
GateInForce(call) == call.cfg.gating_enabled /\ call.cfg.ai_enabled
\* the service gave no answer: not in use, marked unavailable, or generate returned None
ServiceUnavailable(call) ==
    \/ ~call.svc.use_ollama
    \/ ~call.svc.available
    \/ call.svc.resp.kind = "none"
\* the service gave an answer that parses: a JSON object with a usable confidence, or text
ServiceAnswered(call) ==
    /\ call.svc.use_ollama
    /\ call.svc.available
    /\ \/ call.svc.resp.kind = "text"
       \/ call.svc.resp.kind = "json" /\ ~ConfRaises(call.svc.resp.conf)
\* the answer approves: the JSON value true, or an approving keyword in the text
AnswerApproves(r) == IF r.kind = "json" THEN r.approve = "true" ELSE r.keyword
\* the confidence the decision is measured with: the answer's, or the signal's for text
AnswerConfidence(call) ==
    IF call.svc.resp.kind = "json" THEN ConfValue(call.svc.resp.conf) ELSE call.sig_conf

\* C5: with the gate in force and the service unavailable, fail_open = false
\* rejects the signal (approve = false) and fail_open = true approves it with
\* the signal's own confidence. The gate is in force when trade_gating.enabled
\* and ai_assistant.enabled are both set; with either one off the configuration
\* has disabled the gate and the call answers "AI gating disabled".
C5_UnavailableFollowsFailOpen ==
    (gate_in.done /\ GateInForce(gate_in) /\ ServiceUnavailable(gate_in))
        => IF gate_in.cfg.fail_open
           THEN gate_out.approve /\ gate_out.confidence = gate_in.sig_conf
           ELSE ~gate_out.approve
C5_Witness ==
    /\ gate_in.done /\ GateInForce(gate_in) /\ ServiceUnavailable(gate_in)
    /\ gate_in.cfg.fail_open
    /\ gate_in.svc.use_ollama /\ ~gate_in.svc.available
    /\ gate_out.approve /\ gate_out.confidence = 5

\* C7: when the service answers, the decision is approve = true only if the
\* answer approves and the confidence is at least min_confidence.
C7_ApproveOnlyIfAnswerApproves ==
    (gate_in.done /\ GateInForce(gate_in) /\ ServiceAnswered(gate_in) /\ gate_out.approve)
        => /\ AnswerApproves(gate_in.svc.resp)
           /\ AnswerConfidence(gate_in) >= gate_in.cfg.min_confidence


\* ------------------------------------------- the configuration workflow
\* The bot takes commands and posts suggestions once TradingEngine.start has
\* initialised it, which is after the balance sync of the start-up.
\* a step of the workflow as the operator and the logs see it; n is the batch id
WfEv(e, n, param) ==
    [ev |-> e, symbol |-> "", side |-> "", kind |-> "", what |-> param, reason |-> "",
     approve |-> FALSE, conf |-> n]

\* the keys of allowed_params the model carries, and a name outside the table
AllowedParams == {"rsi_period", "bollinger_std_dev", "enable_rsi"}
ParamOrder == <<"max_daily_loss", "rsi_period", "bollinger_std_dev", "enable_rsi">>

\* values are tagged with their Python type; v is in tenths, and a string holds
\* the decimal text of v, or a text that is no number when v is negative
IsNumber(x) == x.t \in {"int", "float", "bool"}

\* coerce_value: bool(), int() or float() after the type of the existing value;
\* a ValueError gives the new value back as it came
CoerceValue(new, existing) ==
    IF existing.t = "bool"
    THEN [t |-> "bool", v |-> IF IsNumber(new) /\ new.v = 0 THEN 0 ELSE 10]
    ELSE IF existing.t = "int"
    THEN IF IsNumber(new) THEN [t |-> "int", v |-> (new.v \div 10) * 10]
         ELSE IF new.v >= 0 /\ new.v % 10 = 0 THEN [t |-> "int", v |-> new.v]
         ELSE new
    ELSE IF existing.t = "float"
    THEN IF IsNumber(new) \/ new.v >= 0 THEN [t |-> "float", v |-> new.v]
         ELSE new
    ELSE new

\* Python's == between two values: numbers compare by value, a string only with a string
PyEq(a, b) ==
    IF IsNumber(a) /\ IsNumber(b) THEN a.v = b.v
    ELSE a.t = b.t /\ a.v = b.v

\* the loop of _apply_config_updates over the batch
AppliedParams(cfg, updates) ==
    {q \in DOMAIN updates \cap AllowedParams : ~PyEq(CoerceValue(updates[q], cfg[q]), cfg[q])}
UpdatedConfig(cfg, updates) ==
    [f \in DOMAIN cfg |->
       IF f \in AppliedParams(cfg, updates) THEN CoerceValue(updates[f], cfg[f]) ELSE cfg[f]]

RECURSIVE ResultEvents(_, _, _, _)
ResultEvents(cfg, updates, n, k) ==
    IF k > Len(ParamOrder) THEN <<>>
    ELSE (IF ParamOrder[k] \notin DOMAIN updates THEN <<>>
          ELSE IF ParamOrder[k] \in AppliedParams(cfg, updates)
          THEN <<WfEv("applied", n, ParamOrder[k])>>
          ELSE <<WfEv("skipped", n, ParamOrder[k])>>)
         \o ResultEvents(cfg, updates, n, k + 1)

\* how the block that persists the configuration ends: the dump and the changelog
\* succeed, open() fails, the dump fails part-way
WriteOutcomes == {"ok", "open_failed", "partial"}
WrittenFile(file, cfg, w) ==
    IF w = "ok" THEN [doc |-> cfg, complete |-> TRUE]
    ELSE IF w = "partial" THEN [doc |-> cfg, complete |-> FALSE]
    ELSE file
WriteEvents(n, w) ==
    IF w = "none" THEN <<>>
    ELSE IF w = "ok" THEN <<WfEv("written", n, "")>>
    ELSE <<WfEv("error", n, "Failed to write config")>>

\* _prune_pending_suggestions
\* a prune that lets nothing expire
NeverExpired(entry, t) == FALSE
Expired(entry, t) == entry.created_at < t - PendingTtlHours
ExpiredIds(pend, t) == {n \in DOMAIN pend : Expired(pend[n], t)}
Drop(pend, ids) == [n \in DOMAIN pend \ ids |-> pend[n]]
RECURSIVE ExpiryEvents(_, _)
ExpiryEvents(ids, n) ==
    IF n >= MaxBatches + 1 THEN <<>>
    ELSE (IF n \in ids THEN <<WfEv("expired", n, "")>> ELSE <<>>) \o ExpiryEvents(ids, n + 1)
PruneEvents(pend, t) == ExpiryEvents(ExpiredIds(pend, t), 0)

\* batches the optimiser proposes, after _normalize_suggestions
SuggestionBatches ==
    {("max_daily_loss" :> [t |-> "int", v |-> 1000]) @@ ("rsi_period" :> [t |-> "int", v |-> 210]),
     ("bollinger_std_dev" :> [t |-> "float", v |-> 25]) @@ ("enable_rsi" :> [t |-> "str", v |-> -1])}

BatchIds == 0 .. MaxBatches

\* send_ai_suggestions: a fresh id, the batch and the time of its creation
SendAiSuggestions ==
    /\ pc = "loop"
    /\ next_id < MaxBatches
    /\ \E b \in SuggestionBatches :
         pending' = pending @@ (next_id :> [suggestions |-> b, created_at |-> now])
    /\ next_id' = next_id + 1
    /\ trace' = <<WfEv("proposed", next_id, "")>>
    /\ UNCHANGED <<engineVars, config, config_file, now, approving, gateVars, unitVars>>

\* time passes, a day at a time
ClockTick ==
    /\ now + PendingTtlHours <= MaxNow
    /\ now' = now + PendingTtlHours
    /\ trace' = <<>>
    /\ UNCHANGED <<engineVars, config, config_file, pending, next_id, approving, gateVars, unitVars>>

\* !suggestions
SuggestionsCommand ==
    /\ pc = "loop"
    /\ pending' = Drop(pending, ExpiredIds(pending, now))
    /\ trace' = <<WfEv("command", 0, "suggestions")>> \o PruneEvents(pending, now)
    /\ UNCHANGED <<engineVars, config, config_file, next_id, now, approving, gateVars, unitVars>>

\* !approve up to its first wait: prune, look the batch up, _apply_config_updates
ApproveCommand(n) ==
    LET pruned == Drop(pending, ExpiredIds(pending, now))
        head == <<WfEv("command", n, "approve")>> \o PruneEvents(pending, now)
    IN /\ pc = "loop"
       /\ pending' = pruned
       /\ IF n \notin DOMAIN pruned
          THEN /\ trace' = Append(head, WfEv("not_found", n, ""))
               /\ UNCHANGED <<config, config_file, approving>>
          ELSE LET updates == pruned[n].suggestions IN
               \E w \in (IF AppliedParams(config, updates) = {} THEN {"none"} ELSE WriteOutcomes) :
                 /\ config' = UpdatedConfig(config, updates)
                 /\ config_file' = WrittenFile(config_file, UpdatedConfig(config, updates), w)
                 /\ trace' = head \o ResultEvents(config, updates, n, 1) \o WriteEvents(n, w)
                 /\ approving' = approving \cup {n}
       /\ UNCHANGED <<engineVars, next_id, now, gateVars, unitVars>>

\* !approve after its reply was sent: the batch is popped
ApproveFinish(n) ==
    /\ n \in approving
    /\ approving' = approving \ {n}
    /\ pending' = Drop(pending, {n})
    /\ trace' = <<WfEv("approve_done", n, "")>>
    /\ UNCHANGED <<engineVars, config, config_file, next_id, now, gateVars, unitVars>>

\* !reject
RejectCommand(n) ==
    LET pruned == Drop(pending, ExpiredIds(pending, now))
        head == <<WfEv("command", n, "reject")>> \o PruneEvents(pending, now)
    IN /\ pc = "loop"
       /\ IF n \notin DOMAIN pruned
          THEN /\ pending' = pruned
               /\ trace' = Append(head, WfEv("not_found", n, ""))
          ELSE /\ pending' = Drop(pruned, {n})
               /\ trace' = Append(head, WfEv("rejected", n, ""))
       /\ UNCHANGED <<engineVars, config, config_file, next_id, now, approving, gateVars, unitVars>>

InitConfig ==
    /\ db_total_pnl = 0
    /\ config_file = [doc |-> ConfigDocument(1, TRUE, TRUE, FALSE, ""), complete |-> TRUE]
    /\ config = LoadConfig(config_file.doc, "env-key")
    /\ InitEngine
    /\ InitWorkflow
    /\ InitGateIdle
    /\ InitUnitsIdle

NextConfig ==
    \/ Start
    \/ SendAiSuggestions /\ UNCHANGED applied_log
    \/ ClockTick /\ UNCHANGED applied_log
    \/ SuggestionsCommand /\ UNCHANGED applied_log
    \/ \E n \in BatchIds : ApproveCommand(n) /\ UNCHANGED applied_log
    \/ \E n \in BatchIds : ApproveFinish(n) /\ UNCHANGED applied_log
    \/ \E n \in BatchIds : RejectCommand(n) /\ UNCHANGED applied_log
SpecConfig == InitConfig /\ [][NextConfig]_vars


CommandStep(tr, name) == Len(tr) > 0 /\ tr[1].ev = "command" /\ tr[1].what = name
AppliedIds(tr) == {tr[k].conf : k \in {j \in DOMAIN tr : tr[j].ev = "applied"}}
RejectedIds(tr) == {tr[k].conf : k \in {j \in DOMAIN tr : tr[j].ev = "rejected"}}
Count(tr, e) == Cardinality({k \in DOMAIN tr : tr[k].ev = e})
\* the batch is older than the TTL at time t
OlderThanTtl(entry, t) == t - entry.created_at > 24

\* C8: a listing, an approval or a rejection removes every pending batch older
\* than 24 hours and the rejected batch, none of them is applied, the step
\* changes the configuration and its file only when it applies a batch that was
\* pending and not older than 24 hours, and a removed id never becomes pending
\* again, so approving it later finds nothing to apply.
C8_DiscardedBatchNeverApplies ==
    [][ /\ (Len(trace') > 0 /\ trace'[1].ev = "command")
            => /\ \A n \in DOMAIN pending :
                    OlderThanTtl(pending[n], now)
                        => n \notin DOMAIN pending' /\ n \notin AppliedIds(trace')
               /\ \A n \in RejectedIds(trace') :
                    n \notin DOMAIN pending' /\ n \notin AppliedIds(trace')
               /\ \A n \in AppliedIds(trace') :
                    /\ CommandStep(trace', "approve") /\ trace'[1].conf = n
                    /\ n \in DOMAIN pending /\ ~OlderThanTtl(pending[n], now)
               /\ AppliedIds(trace') = {} => config' = config /\ config_file' = config_file
        /\ \A n \in DOMAIN pending : n < next_id
        /\ \A n \in DOMAIN pending' \ DOMAIN pending : n = next_id /\ next_id' = next_id + 1
        /\ next_id' >= next_id
      ]_vars
\* an approve command meets its batch older than the TTL: it expires and nothing is applied
C8_Witness ==
    /\ CommandStep(trace, "approve")
    /\ \E k \in DOMAIN trace : trace[k].ev = "expired" /\ trace[k].conf = trace[1].conf
    /\ \E k \in DOMAIN trace : trace[k].ev = "not_found" /\ trace[k].conf = trace[1].conf
    /\ AppliedIds(trace) = {}
    /\ config.rsi_period.v = 140 /\ config.bollinger_std_dev.v = 20

\* C9: the live configuration changes only in a step that applies an approved batch.
C9_ConfigChangesOnlyByApproval ==
    [][ config' # config => AppliedIds(trace') # {} ]_vars

\* the fields in which two configuration documents differ
DiffFields(a, b) == {f \in DOMAIN a : a[f] # b[f]}

\* C10: approving a batch of one parameter outside the allow-list and one
\* allow-listed parameter whose coerced value differs from the current one
\* reports one applied, one skipped and no error, and, the write having gone
\* through, the stored document differs from the one stored before in that
\* parameter only.
C10_FileReflectsOnlyTheChange ==
    [][ \A n \in DOMAIN pending :
          ( /\ CommandStep(trace', "approve") /\ trace'[1].conf = n
            /\ ~OlderThanTtl(pending[n], now)
            /\ Count(trace', "written") = 1
            /\ \E u \in DOMAIN pending[n].suggestions \ AllowedParams,
                  q \in DOMAIN pending[n].suggestions \cap AllowedParams :
                 /\ DOMAIN pending[n].suggestions = {u, q}
                 /\ ~PyEq(CoerceValue(pending[n].suggestions[q], config[q]), config[q]) )
          => /\ Count(trace', "applied") = 1
             /\ Count(trace', "skipped") = 1
             /\ Count(trace', "error") = 0
             /\ \A k \in DOMAIN trace' : trace'[k].ev = "applied" =>
                    DiffFields(config_file.doc, config_file'.doc) = {trace'[k].what}
      ]_vars

\* C11: the stored configuration is a complete document at every point, also when
\* a write of an approval fails part-way.
C11_FileNeverPartial == config_file.complete

\* the order results of a handler, and the test of a confirmed fill on one of them
OrderResults(tr) == {k \in DOMAIN tr : tr[k].ev = "order_result"}
ConfirmedFill(e) == e.kind = "order" /\ (e.what \in {"filled", "closed"} \/ e.approve)
ExitOrderAfter(tr, k, purpose, type, pos) ==
    \E j \in DOMAIN tr :
        /\ j > k /\ tr[j].ev = "order" /\ tr[j].what = purpose /\ tr[j].kind = type
        /\ tr[j].symbol = pos.symbol /\ tr[j].side = OppositeSide(pos.side)
        /\ tr[j].conf = pos.size

\* C12: a handler records a new Position exactly when its entry order came back
\* confirmed filled (status filled or closed, or filled >= amount); with the
\* Position it submits a stop order and a take-profit order on the opposite side
\* for the full size; an entry order that comes back unfilled or partly filled
\* leaves the ledger as it was, submits no exit order and sends the
\* order-not-filled notification. (A placement the exchange rejects with 51155
\* is no order and is notified as a restricted pair.)
C12_PositionIffConfirmedFill ==
    [][/\ \A k \in OrderResults(trace') :
            LET s == trace'[k].symbol IN
            IF ConfirmedFill(trace'[k])
            THEN /\ s \notin PosKeys(positions) /\ s \in PosKeys(positions')
                 /\ PosGet(positions', s).side = trace'[k].side
                 /\ ExitOrderAfter(trace', k, "stop", "stop_market", PosGet(positions', s))
                 /\ ExitOrderAfter(trace', k, "take_profit", "limit", PosGet(positions', s))
            ELSE /\ positions' = positions
                 /\ \A j \in DOMAIN trace' :
                        trace'[j].ev = "order" => trace'[j].what \notin {"stop", "take_profit"}
                 /\ trace'[k].kind # "restricted" => Notified(trace', "Order Not Filled")
       /\ \A s \in PosKeys(positions') \ PosKeys(positions) :
            \E k \in OrderResults(trace') : trace'[k].symbol = s /\ ConfirmedFill(trace'[k])
      ]_vars
\* an entry order that was only partly filled within the wait: no Position, a notification
C12_Witness ==
    /\ \E k \in OrderResults(trace) :
          /\ trace[k].kind = "order" /\ trace[k].what = "open" /\ ~trace[k].approve
          /\ trace[k].symbol \notin PosKeys(positions)
    /\ Notified(trace, "Order Not Filled")
    /\ positions # <<>>

\* the exit conditions on a position at its mark price
StopHit(pos) ==
    \/ pos.side = "buy" /\ pos.current_price <= pos.stop_loss
    \/ pos.side = "sell" /\ pos.current_price >= pos.stop_loss
TakeProfitHit(pos) ==
    \/ pos.side = "buy" /\ pos.current_price >= pos.take_profit
    \/ pos.side = "sell" /\ pos.current_price <= pos.take_profit
MarkedAt(pos, price) ==
    [pos EXCEPT !.current_price = price,
                !.pnl = IF pos.side = "buy" THEN (price - pos.entry_price) * pos.size
                        ELSE (pos.entry_price - price) * pos.size]
CloseOrderFor(tr, pos) ==
    \E j \in CloseOrders(tr) :
        /\ tr[j].symbol = pos.symbol /\ tr[j].side = OppositeSide(pos.side)
        /\ tr[j].kind = "market" /\ tr[j].conf = pos.size

ConfirmedCloses(tr) ==
    {tr[k].symbol : k \in {j \in DOMAIN tr : tr[j].ev = "close_result" /\ tr[j].what = "filled"}}
\* the P&L a close of s realizes: at the price the handler got, else the P&L last marked
RealizedPnl(tr, ps, s) ==
    IF \E k \in DOMAIN tr : tr[k].ev = "ticker" /\ tr[k].symbol = s
    THEN MarkedAt(PosGet(ps, s), tr[CHOOSE k \in DOMAIN tr :
                                       tr[k].ev = "ticker" /\ tr[k].symbol = s].conf).pnl
    ELSE PosGet(ps, s).pnl
RECURSIVE SumPnl(_, _, _)
SumPnl(tr, ps, S) ==
    IF S = {} THEN 0
    ELSE LET s == CHOOSE x \in S : TRUE IN RealizedPnl(tr, ps, s) + SumPnl(tr, ps, S \ {s})
EventsOf(tr, e, s) == {k \in DOMAIN tr : tr[k].ev = e /\ tr[k].symbol = s}

ComplianceRejected(tr) ==
    {tr[k].symbol : k \in {j \in DOMAIN tr :
        \/ tr[j].ev = "order_result" /\ tr[j].kind = "restricted"
        \/ tr[j].ev = "close_result" /\ tr[j].what = "rejected"}}
ActiveSet == {active_pairs[i] : i \in DOMAIN active_pairs}

\* C15: a symbol for which an order was rejected with 51155 is restricted from
\* then on; a restricted symbol stays restricted, is in no later active set and
\* gets no further order.
C15_RestrictedForGood ==
    [][/\ \A s \in ComplianceRejected(trace') :
            s \in restricted_pairs' /\ s \notin ActiveSet'
       /\ \A s \in restricted_pairs :
            /\ s \in restricted_pairs' /\ s \notin ActiveSet'
            /\ \A k \in DOMAIN trace' : trace'[k].ev = "order" => trace'[k].symbol # s
      ]_vars

\* ------------------------------------------------------ the signal generator
\* A price, a distance or a level is held as a whole number of 1/PriceScale of
\* the quote currency, a size as a whole number of 1/SizeScale of the base unit.
PriceScale == 10000
SizeScale == 1000
Min(a, b) == IF a < b THEN a ELSE b
Max(a, b) == IF a > b THEN a ELSE b
\* a / b rounded to the nearest whole number, as a float division rounds its
\* quotient to the nearest representable value (a >= 0, b > 0)
RoundDiv(a, b) == IF 2 * (a % b) >= b THEN (a \div b) + 1 ELSE a \div b

\* RiskManager.calculate_position_size: entry and stop in 1/PriceScale, max_risk
\* and peak in whole currency units, the result in 1/SizeScale
CalculatePositionSizeLooseCap(entry_price, stop_loss, max_risk, peak) ==
    LET risk_per_unit == Abs(entry_price - stop_loss) IN
    IF risk_per_unit = 0 \/ entry_price = 0 THEN 0
    ELSE Min(RoundDiv(max_risk * PriceScale * SizeScale, risk_per_unit),
             RoundDiv(((peak * SizeScale) \div 5) * PriceScale, entry_price))
CalculatePositionSize(entry_price, stop_loss, max_risk, peak) ==
    LET risk_per_unit == Abs(entry_price - stop_loss) IN
    IF risk_per_unit = 0 THEN 0
    ELSE IF entry_price = 0 THEN 0      \* ZeroDivisionError, caught: 0.0
    ELSE LET position_size == RoundDiv(max_risk * PriceScale * SizeScale, risk_per_unit)
             max_position_value == (peak * SizeScale) \div 10
             max_size_by_value == RoundDiv(max_position_value * PriceScale, entry_price)
         IN Min(position_size, max_size_by_value)

\* last close of the candles, whole quote units
SignalPrices == {3, 40, 1000}
\* last value of the ATR series, whole quote units; -1 stands for NaN or None
AtrValues == {-1, 0, 1, 2, 200}
StopLossMultipliers == {1, 2}
TakeProfitMultipliers == {2, 3}
\* votes of the indicator rules for each side
VoteCounts == 0..2
\* the AI opinion: none, or an action with weight x confidence in tenths
AiOpinions ==
    {[action |-> "none", score |-> 0]}
        \cup [action : {"buy", "sell", "hold"}, score : {5, 10, 15}]
RiskAmounts == {5, 10}
SignalCalls ==
    {[price |-> p, atr |-> a, stop_loss_multiplier |-> sl, take_profit_multiplier |-> tp,
      buy_votes |-> b, sell_votes |-> s, ai_action |-> ai.action, ai_score |-> ai.score,
      signal_confirmation |-> c, max_risk_amount |-> m, peak |-> 900, done |-> FALSE] :
        p \in SignalPrices, a \in AtrValues, sl \in StopLossMultipliers,
        tp \in TakeProfitMultipliers, b \in VoteCounts, s \in VoteCounts,
        ai \in AiOpinions, c \in BOOLEAN, m \in RiskAmounts}

\* scores of the two buckets in tenths
Score(in, side) ==
    10 * (IF side = "buy" THEN in.buy_votes ELSE in.sell_votes)
        + (IF in.ai_action = side THEN in.ai_score ELSE 0)
TotalSignals(in) ==
    in.buy_votes + in.sell_votes + (IF in.ai_action = "none" THEN 0 ELSE 1)
\* the final action with a tie given to the buy side
SignalActionTieBuys(in) ==
    IF in.signal_confirmation /\ TotalSignals(in) < 2 THEN "none"
    ELSE IF Score(in, "buy") >= Score(in, "sell") THEN "buy"
    ELSE "sell"
SignalAction(in) ==
    IF in.signal_confirmation /\ TotalSignals(in) < 2 THEN "none"
    ELSE IF Score(in, "buy") > Score(in, "sell") THEN "buy"
    ELSE IF Score(in, "sell") > Score(in, "buy") THEN "sell"
    ELSE "none"
AtrDistance(in) ==
    IF in.atr > 0 THEN in.atr * in.stop_loss_multiplier * PriceScale ELSE 0
MinDistance(in) == in.price * MinStopPermille * (PriceScale \div 1000)
MaxDistance(in) == in.price * MaxStopPermille * (PriceScale \div 1000)
StopLossDistanceNoFloor(in) == Min(AtrDistance(in), MaxDistance(in))
StopLossDistance(in) == Min(Max(AtrDistance(in), MinDistance(in)), MaxDistance(in))
\* the take-profit on the far side of the entry from the stop
TakeProfitLevelMirrored(action, current_price, stop_loss_distance, multiplier) ==
    IF action = "buy" THEN current_price - stop_loss_distance * multiplier
    ELSE current_price + stop_loss_distance * multiplier
TakeProfitLevel(action, current_price, stop_loss_distance, multiplier) ==
    IF action = "buy" THEN current_price + stop_loss_distance * multiplier
    ELSE current_price - stop_loss_distance * multiplier
GenerateSignal(in) ==
    LET action == SignalAction(in)
        current_price == in.price * PriceScale
        stop_loss_distance == StopLossDistance(in)
        stop_loss == IF action = "buy" THEN current_price - stop_loss_distance
                     ELSE current_price + stop_loss_distance
        take_profit == TakeProfitLevel(action, current_price, stop_loss_distance,
                                       in.take_profit_multiplier)
    IN IF action = "none" THEN NoSignal
       ELSE [produced |-> TRUE, action |-> action, entry_price |-> current_price,
             stop_loss |-> stop_loss, take_profit |-> take_profit,
             position_size |-> CalculatePositionSize(current_price, stop_loss,
                                                     in.max_risk_amount, in.peak)]

InitSignal ==
    /\ db_total_pnl = 0
    /\ config_file = [doc |-> ConfigDocument(1, TRUE, TRUE, FALSE, ""), complete |-> TRUE]
    /\ config = LoadConfig(config_file.doc, "env-key")
    /\ InitEngine
    /\ InitWorkflow
    /\ InitGateIdle
    /\ InitSizeIdle
    /\ InitLockIdle
    /\ InitResearchIdle
    /\ InitValidateIdle
    /\ InitAnalysisIdle
    /\ InitAggregateIdle
    /\ InitRulesIdle
    /\ InitFetchIdle
    /\ sig_in \in SignalCalls
    /\ sig_out = NoSignal
GenerateCall ==
    /\ ~sig_in.done
    /\ sig_in' = [sig_in EXCEPT !.done = TRUE]
    /\ sig_out' = GenerateSignal(sig_in)
    /\ UNCHANGED <<engineVars, trace, config, config_file, workflowVars, gateVars,
                   size_in, size_out, lockVars, researchVars, validateVars, analysisVars,
                   aggregateVars, rulesVars, fetchVars>>
NextSignal == GenerateCall
SpecSignal == InitSignal /\ [][NextSignal]_vars

\* C16: a signal the generator returns has its stop below and its take-profit
\* above the entry price when it buys, and the reverse when it sells.
C16_LevelsOnTheRightSide ==
    sig_out.produced =>
        /\ sig_out.action = "buy" =>
             sig_out.stop_loss < sig_out.entry_price
                 /\ sig_out.entry_price < sig_out.take_profit
        /\ sig_out.action = "sell" =>
             sig_out.take_profit < sig_out.entry_price
                 /\ sig_out.entry_price < sig_out.stop_loss
\* a sell signal made without a usable ATR: the levels come from the minimum distance
C16_Witness ==
    /\ sig_in.done /\ sig_in.atr <= 0
    /\ sig_out.produced /\ sig_out.action = "sell"
    /\ sig_out.stop_loss - sig_out.entry_price = MinDistance(sig_in)
    /\ sig_out.take_profit < sig_out.entry_price

\* ------------------------------------------- calculate_position_size alone
SizeEntries == {0, 3 * PriceScale, 40 * PriceScale, 1000 * PriceScale}
\* the stop as an offset from the entry, in 1/PriceScale
StopOffsets == {-7000, -150, 0, 150, 7000}
SizeCalls ==
    {[entry_price |-> e, stop_loss |-> e + d, max_risk |-> m, peak |-> p, done |-> FALSE] :
        e \in SizeEntries, d \in StopOffsets, m \in {0, 5, 10}, p \in {0, 500, 900}}
InitSize ==
    /\ db_total_pnl = 0
    /\ config_file = [doc |-> ConfigDocument(1, TRUE, TRUE, FALSE, ""), complete |-> TRUE]
    /\ config = LoadConfig(config_file.doc, "env-key")
    /\ InitEngine
    /\ InitWorkflow
    /\ InitGateIdle
    /\ InitSignalIdle
    /\ InitLockIdle
    /\ InitResearchIdle
    /\ InitValidateIdle
    /\ InitAnalysisIdle
    /\ InitAggregateIdle
    /\ InitRulesIdle
    /\ InitFetchIdle
    /\ size_in \in SizeCalls
    /\ size_out = 0
SizeCall ==
    /\ ~size_in.done
    /\ size_in' = [size_in EXCEPT !.done = TRUE]
    /\ size_out' = CalculatePositionSize(size_in.entry_price, size_in.stop_loss,
                                         size_in.max_risk, size_in.peak)
    /\ UNCHANGED <<engineVars, trace, config, config_file, workflowVars, gateVars,
                   sig_in, sig_out, lockVars, researchVars, validateVars, analysisVars,
                   aggregateVars, rulesVars, fetchVars>>
NextSize == SizeCall
SpecSize == InitSize /\ [][NextSize]_vars

\* size x |entry - stop| and max_risk, both in 1/(PriceScale x SizeScale)
RiskOfSize == size_out * Abs(size_in.entry_price - size_in.stop_loss)
RiskAllowed == size_in.max_risk * PriceScale * SizeScale
\* size x entry and a tenth of the peak equity, in the same unit
ValueOfSize == size_out * size_in.entry_price
ValueAllowed == ((size_in.peak * SizeScale) \div 10) * PriceScale

LockAlwaysFree == TRUE
LockFree == gate_lock = 0
EvalBegin(c) ==
    /\ eval_pc[c] = "idle"
    /\ \E available \in BOOLEAN :
         eval_pc' = [eval_pc EXCEPT ![c] =
            IF ~config.gating_enabled \/ ~config.ai_enabled THEN "returned"
            ELSE IF available THEN "acquire"
            ELSE "fallback"]
    /\ UNCHANGED gate_lock
EvalAcquire(c) ==
    /\ eval_pc[c] = "acquire"
    /\ LockFree
    /\ gate_lock' = c
    /\ eval_pc' = [eval_pc EXCEPT ![c] = "locked"]
\* building the prompt may raise; the context manager then releases the lock
EvalCallService(c) ==
    /\ eval_pc[c] = "locked"
    /\ \E raised \in BOOLEAN :
         IF raised
         THEN gate_lock' = 0 /\ eval_pc' = [eval_pc EXCEPT ![c] = "fallback"]
         ELSE gate_lock' = gate_lock /\ eval_pc' = [eval_pc EXCEPT ![c] = "service"]
EvalServiceReturns(c) ==
    /\ eval_pc[c] = "service"
    /\ eval_pc' = [eval_pc EXCEPT ![c] = "answered"]
    /\ UNCHANGED gate_lock
\* an answer returns from inside the block; no answer or a parse error leaves
\* the block for the fallback; the lock is released either way
EvalRelease(c) ==
    /\ eval_pc[c] = "answered"
    /\ gate_lock' = 0
    /\ \E usable \in BOOLEAN :
         eval_pc' = [eval_pc EXCEPT ![c] = IF usable THEN "returned" ELSE "fallback"]
EvalFallback(c) ==
    /\ eval_pc[c] = "fallback"
    /\ eval_pc' = [eval_pc EXCEPT ![c] = "returned"]
    /\ UNCHANGED gate_lock
EvalReturn(c) ==
    /\ eval_pc[c] = "returned"
    /\ eval_pc' = [eval_pc EXCEPT ![c] = "idle"]
    /\ UNCHANGED gate_lock
InitLock ==
    /\ db_total_pnl = 0
    /\ \E g \in BOOLEAN :
         config_file = [doc |-> ConfigDocument(1, g, TRUE, FALSE, ""), complete |-> TRUE]
    /\ config = LoadConfig(config_file.doc, "env-key")
    /\ InitEngine
    /\ InitWorkflow
    /\ InitGateIdle
    /\ InitSignalIdle
    /\ InitSizeIdle
    /\ InitLockIdle
    /\ InitResearchIdle
    /\ InitValidateIdle
    /\ InitAnalysisIdle
    /\ InitAggregateIdle
    /\ InitRulesIdle
    /\ InitFetchIdle
NextLock ==
    /\ \E c \in EvalCalls :
         \/ EvalBegin(c)
         \/ EvalAcquire(c)
         \/ EvalCallService(c)
         \/ EvalServiceReturns(c)
         \/ EvalRelease(c)
         \/ EvalFallback(c)
         \/ EvalReturn(c)
    /\ UNCHANGED <<engineVars, trace, config, config_file, workflowVars, gateVars,
                   sig_in, sig_out, size_in, size_out, researchVars, validateVars,
                   analysisVars, aggregateVars, rulesVars, fetchVars>>
SpecLock == InitLock /\ [][NextLock]_vars

InService == {c \in EvalCalls : eval_pc[c] = "service"}
HoldingLock == {c \in EvalCalls : eval_pc[c] \in {"locked", "service", "answered"}}

\* C18: at no time are two evaluate_trade_signal calls inside the call to the AI
\* service; a call inside it is the one holder of the gate lock.
C18_OneCallInService ==
    /\ Cardinality(InService) <= 1
    /\ HoldingLock = (IF gate_lock = 0 THEN {} ELSE {gate_lock})
\* one call is inside the service while the two others wait for the lock
C18_Witness ==
    /\ InService = {2}
    /\ eval_pc[1] = "acquire" /\ eval_pc[3] = "acquire"

\* the gating-log entries written before place k of a handler's effects that
\* carry the decision of the event at k
LoggedBefore(tr, k) ==
    {j \in 1..(k - 1) :
        /\ tr[j].ev = "gate_log"
        /\ tr[j].symbol = tr[k].symbol /\ tr[j].side = tr[k].side
        /\ tr[j].approve = tr[k].approve /\ tr[j].conf = tr[k].conf
        /\ tr[j].reason = tr[k].reason}
\* the place where the decision of the handler was handed to the operator
GateNotified(tr) == {k \in DOMAIN tr : tr[k].ev = "gate_notify"}
\* the places where the engine acted on it: the verdict of _can_execute_trade
\* and the notification of a blocked trade
ActedOn(tr, k) ==
    {j \in DOMAIN tr :
        /\ j > k
        /\ \/ tr[j].ev = "can_execute"
           \/ tr[j].ev = "notify" /\ tr[j].what = "AI Trade Gate Blocked"}

\* C19: a gate decision, from the service or from the fallback, is in the gating
\* log with its symbol, action, confidence and reason before it is notified to
\* the operator and before the trade is allowed or blocked.
C19_DecisionLoggedFirst ==
    [][\A k \in GateNotified(trace') :
          /\ LoggedBefore(trace', k) # {}
          /\ ActedOn(trace', k) # {}
      ]_vars

\* ------------------------------------------------- scheduled pattern research
\* _maybe_run_research, called by each tick after the risk checks; a call with
\* research disabled or not yet due changes nothing and is left out
FlagIgnored == TRUE
FlagClear == ~research_running
MaybeRunResearch ==
    /\ pc = "loop"
    /\ FlagClear
    /\ research_running' = TRUE
    /\ research_tasks' = Append(research_tasks, "created")
    /\ UNCHANGED research_last
    /\ UNCHANGED <<engineVars, trace, config, config_file, workflowVars, gateVars,
                   sig_in, sig_out, size_in, size_out, lockVars, validateVars, analysisVars,
                   aggregateVars, rulesVars, fetchVars>>
\* the task gets the event loop: _run_research up to its first await
ResearchBegin(i) ==
    /\ research_tasks[i] = "created"
    /\ research_tasks' = [research_tasks EXCEPT ![i] = "running"]
    /\ UNCHANGED <<research_running, research_last>>
PassOutcomes == {"finished", "raised"}
\* a pass whose flag is cleared on the way out of the try body only
ResearchEndNoFinally(i) ==
    /\ research_tasks[i] = "running"
    /\ research_tasks' = [j \in 1..(Len(research_tasks) - 1) |->
                            IF j < i THEN research_tasks[j] ELSE research_tasks[j + 1]]
    /\ \E outcome \in PassOutcomes :
          /\ research_last' = outcome
          /\ research_running' = IF outcome = "raised" THEN research_running ELSE FALSE
\* researcher.run returns, or raises and the error is reported; the finally clause
\* clears the flag either way
ResearchEnd(i) ==
    /\ research_tasks[i] = "running"
    /\ research_tasks' = [j \in 1..(Len(research_tasks) - 1) |->
                            IF j < i THEN research_tasks[j] ELSE research_tasks[j + 1]]
    /\ \E outcome \in PassOutcomes : research_last' = outcome
    /\ research_running' = FALSE
ResearchTask ==
    /\ \E i \in DOMAIN research_tasks : ResearchBegin(i) \/ ResearchEnd(i)
    /\ UNCHANGED <<engineVars, trace, config, config_file, workflowVars, gateVars,
                   sig_in, sig_out, size_in, size_out, lockVars, validateVars, analysisVars,
                   aggregateVars, rulesVars, fetchVars>>
InitResearch ==
    /\ db_total_pnl = 0
    /\ config_file = [doc |-> ConfigDocument(1, FALSE, TRUE, FALSE, ""), complete |-> TRUE]
    /\ config = LoadConfig(config_file.doc, "env-key")
    /\ InitEngine
    /\ InitWorkflow
    /\ InitGateIdle
    /\ InitUnitsIdle
NextResearch ==
    \/ Next
    \/ MaybeRunResearch
    \/ ResearchTask
SpecResearch == InitResearch /\ [][NextResearch]_vars

\* the step of the tick that is due at the engine task's position
TickStepEnabled ==
    /\ pc = "loop" => ENABLED LoopTop
    /\ pc = "process" => ENABLED ProcessSymbol
    /\ pc = "monitor" => ENABLED (MonitorPosition \/ RiskChecks)

\* C20: at most one research pass is in flight; it is a task of its own, and
\* while it is in flight the step of the tick loop that is due can be taken.
C20_OneResearchPassBesideTheLoop ==
    /\ Len(research_tasks) <= 1
    /\ research_tasks # <<>> => TickStepEnabled
\* a research pass is running while the tick loop has just placed an entry order
C20_Witness ==
    /\ research_tasks = <<"running">>
    /\ research_running
    /\ EntryOrders(trace) # {}
    /\ positions # <<>>

\* ------------------------------------------------------ validate_trade alone
\* Prices and sizes in whole units, as in Signals; the entry price is 100, or the
\* float 0.0 that makes the division of _check_volatility_limits raise. The open positions are the
\* engine's ledger at the time of the call, each as NewPosition leaves it for
\* the signals of Signals: size 1, entry 100, stop 95.
ValidateSymbols == {"BTC-USDT", "WBTC-USDT", "ETH-USDT"}
StopDistances == {0, 5, 11}
EntryPrices == {0, 100}
ValidateCalls ==
    {[symbol |-> sym, action |-> a, entry_price |-> e,
      stop_loss |-> IF a = "buy" THEN e - d ELSE e + d,
      take_profit |-> TakeProfitLevel(a, e, d, m), take_profit_multiplier |-> m,
      position_size |-> z, peak |-> p, open |-> o, done |-> FALSE] :
        sym \in ValidateSymbols, a \in {"buy", "sell"}, e \in EntryPrices,
        d \in StopDistances, m \in {1, 2},
        z \in {0, 1, 10}, p \in {900, 1000}, o \in SUBSET {"BTC-USDT", "ETH-USDT"}}
InitValidate ==
    /\ db_total_pnl = 0
    /\ config_file = [doc |-> ConfigDocument(1, TRUE, TRUE, FALSE, ""), complete |-> TRUE]
    /\ config = LoadConfig(config_file.doc, "env-key")
    /\ InitEngine
    /\ InitWorkflow
    /\ InitGateIdle
    /\ InitSignalIdle
    /\ InitSizeIdle
    /\ InitLockIdle
    /\ InitResearchIdle
    /\ InitAnalysisIdle
    /\ InitAggregateIdle
    /\ InitRulesIdle
    /\ InitFetchIdle
    /\ val_in \in ValidateCalls
    /\ val_out = FALSE
ValidateCall ==
    /\ ~val_in.done
    /\ val_in' = [val_in EXCEPT !.done = TRUE]
    /\ val_out' = ValidateTrade(val_in, val_in.peak)
    /\ UNCHANGED <<engineVars, trace, config, config_file, workflowVars, gateVars,
                   sig_in, sig_out, size_in, size_out, lockVars, researchVars, analysisVars,
                   aggregateVars, rulesVars, fetchVars>>
NextValidate == ValidateCall
SpecValidate == InitValidate /\ [][NextValidate]_vars

\* C21: for a buy signal with entry 100, stop 95 and take-profit multiplier 2
\* the take-profit is 110, the reward is twice the risk, and validate_trade,
\* with the minimum risk/reward ratio of 1.5, returns true (the size is the 1.0
\* that max_risk 5 gives for this stop).
C21_ScenarioValidates ==
    (/\ val_in.done /\ val_in.action = "buy"
     /\ val_in.entry_price = 100 /\ val_in.stop_loss = 95
     /\ val_in.take_profit_multiplier = 2 /\ val_in.position_size = 1)
    => /\ val_in.take_profit = 110
       /\ Abs(val_in.take_profit - val_in.entry_price)
            = 2 * Abs(val_in.entry_price - val_in.stop_loss)
       /\ MinRiskReward = 15
       /\ val_out
\* the scenario's signal has been validated with no position open
C21_Witness ==
    /\ val_in.done /\ val_in.action = "buy" /\ val_in.open = {}
    /\ val_in.entry_price = 100 /\ val_in.stop_loss = 95 /\ val_in.take_profit = 110
    /\ val_in.take_profit_multiplier = 2 /\ val_in.position_size = 1
    /\ val_out

\* ------------------------------------------------ _analyze_patterns alone
\* defaults of the research settings
MinOccurrences == 20
ThresholdPermille == 2
Lookahead == 10
\* The history under analysis: the pattern fires at 25 bars, in three runs far
\* enough apart that no firing bar is the lookahead bar of another. Every bar
\* closes at 1000, except the lookahead bars of the first 15 firings, which
\* close at `up`; the history has `bars` bars, so the last run may reach into
\* the final Lookahead bars.
FiringBars == (0..9) \cup (20..29) \cup (40..44)
RisingBars == (10..19) \cup (30..34)
Close(in, i) == IF i \in RisingBars THEN in.up ELSE 1000
DirectionMap(pattern_name) ==
    CASE pattern_name \in {"hammer", "engulfing", "higher_highs", "double_bottom"} -> "bullish"
      [] pattern_name \in {"lower_lows", "double_top"} -> "bearish"
      [] OTHER -> "neutral"
\* ret >= threshold, for ret = diff / base
AboveThreshold(diff, base) == diff * 1000 > ThresholdPermille * base
AtLeastThreshold(diff, base) == diff * 1000 >= ThresholdPermille * base
Success(direction, diff, base) ==
    CASE direction = "bullish" -> AtLeastThreshold(diff, base)
      [] direction = "bearish" -> AtLeastThreshold(-diff, base)
      [] OTHER -> AtLeastThreshold(Abs(diff), base)
\* the firings the loop does not skip: those with a bar Lookahead later
Sampled(in) == {pos \in FiringBars : ~(pos + Lookahead >= in.bars)}
RECURSIVE SumReturns(_, _)
SumReturns(in, ps) ==
    IF ps = {} THEN 0
    ELSE LET pos == CHOOSE x \in ps : TRUE IN
         ((Close(in, pos + Lookahead) - Close(in, pos)) * 10000) \div Close(in, pos)
             + SumReturns(in, ps \ {pos})
\* the record for one pattern; return_sum is the sum of the returns in 1/10000
AnalyzePatterns(in) ==
    LET fired == FiringBars
        returns == Sampled(in)
        successes ==
            {pos \in returns :
                Success(DirectionMap(in.pattern_name),
                        Close(in, pos + Lookahead) - Close(in, pos), Close(in, pos))}
    IN IF Cardinality(fired) < in.min_occurrences \/ returns = {} THEN NoReport
       ELSE [emitted |-> TRUE, occurrences |-> Cardinality(fired),
             successes |-> Cardinality(successes), sample_size |-> Cardinality(returns),
             return_sum |-> SumReturns(in, returns)]

AnalysisCalls ==
    [pattern_name : {"hammer", "doji", "lower_lows"}, bars : 45..55, up : {1002, 1005},
     min_occurrences : {MinOccurrences, 25, 26}, done : {FALSE}]
InitAnalysis ==
    /\ db_total_pnl = 0
    /\ config_file = [doc |-> ConfigDocument(1, TRUE, TRUE, FALSE, ""), complete |-> TRUE]
    /\ config = LoadConfig(config_file.doc, "env-key")
    /\ InitEngine
    /\ InitWorkflow
    /\ InitGateIdle
    /\ InitSignalIdle
    /\ InitSizeIdle
    /\ InitLockIdle
    /\ InitResearchIdle
    /\ InitValidateIdle
    /\ InitAggregateIdle
    /\ InitRulesIdle
    /\ InitFetchIdle
    /\ ana_in \in AnalysisCalls
    /\ ana_out = NoReport
AnalyzeCall ==
    /\ ~ana_in.done
    /\ ana_in' = [ana_in EXCEPT !.done = TRUE]
    /\ ana_out' = AnalyzePatterns(ana_in)
    /\ UNCHANGED <<engineVars, trace, config, config_file, workflowVars, gateVars,
                   sig_in, sig_out, size_in, size_out, lockVars, researchVars,
                   validateVars, aggregateVars, rulesVars, fetchVars>>
NextAnalysis == AnalyzeCall
SpecAnalysis == InitAnalysis /\ [][NextAnalysis]_vars

\* the firings whose close Lookahead bars later is at least 0.2% higher
FiringsThatRose ==
    {pos \in FiringBars :
        /\ pos + Lookahead < ana_in.bars
        /\ (Close(ana_in, pos + Lookahead) - Close(ana_in, pos)) * 1000
              >= ThresholdPermille * Close(ana_in, pos)}
HammerScenario ==
    /\ ana_in.done /\ ana_in.pattern_name = "hammer"
    /\ ana_in.min_occurrences = MinOccurrences
    /\ Cardinality(FiringBars) = 25
    /\ Cardinality(FiringsThatRose) = 15
\* success_rate = 0.60
RateIsSixtyPercent == ana_out.successes * 100 = 60 * ana_out.sample_size

\* C22 as stated: hammer fires at 25 bars and 15 firings rose by 0.2% or more
\* within the lookahead; the record is emitted with occurrences 25 and success
\* rate 0.60, wherever the firings lie.
C22_HammerReportAnywhere ==
    HammerScenario =>
        ana_out.emitted /\ ana_out.occurrences = 25 /\ RateIsSixtyPercent

\* C22 amended: the same, when every firing has a bar Lookahead later; a firing
\* in the last Lookahead bars counts in occurrences but not in the rate.
C22_HammerReportWithFullLookahead ==
    (HammerScenario /\ \A pos \in FiringBars : pos + Lookahead < ana_in.bars) =>
        /\ ana_out.emitted /\ ana_out.occurrences = 25 /\ RateIsSixtyPercent
        /\ ana_out.sample_size = 25 /\ ana_out.successes = 15
\* the scenario with the rise exactly at the threshold and the last firing
\* ten bars before the end
C22_Witness ==
    /\ HammerScenario /\ ana_in.bars = 55 /\ ana_in.up = 1002
    /\ ana_out.emitted /\ ana_out.occurrences = 25
    /\ ana_out.successes = 15 /\ ana_out.sample_size = 25

\* ------------------------------------- _aggregate_research_summary alone
\* The summary dict is a list of entries in insertion order, one per
\* (pattern_name, timeframe) key: occurrences, success = sum of success_rate x
\* occurrences, avg_ret = sum of avg_return x occurrences.
MaxCalls == 2
\* a summary that starts from what the call before left behind
KeptSummary(left) == left
\* summary = {} at the top of the function
NewSummary(left) == <<>>
SameKey(e, r) == e.pattern_name = r.pattern_name /\ e.timeframe = r.timeframe
HasKey(summary, r) == \E i \in DOMAIN summary : SameKey(summary[i], r)
AddRecord(summary, r) ==
    LET started ==
            IF HasKey(summary, r) THEN summary
            ELSE Append(summary, [pattern_name |-> r.pattern_name,
                                  timeframe |-> r.timeframe,
                                  occurrences |-> 0, success |-> 0, avg_ret |-> 0])
    IN [i \in DOMAIN started |->
          IF SameKey(started[i], r)
          THEN [started[i] EXCEPT
                  !.occurrences = @ + r.occurrences,
                  !.success = @ + r.success_rate * r.occurrences,
                  !.avg_ret = @ + r.avg_return * r.occurrences]
          ELSE started[i]]
RECURSIVE Summarize(_, _)
Summarize(records, summary) ==
    IF records = <<>> THEN summary
    ELSE Summarize(Tail(records), AddRecord(summary, Head(records)))
\* one result: the rates are success / occ and avg_ret / occ, kept as fractions
ResultOf(e) ==
    [pattern_name |-> e.pattern_name, timeframe |-> e.timeframe,
     occurrences |-> e.occurrences, success |-> e.success, avg_ret |-> e.avg_ret,
     occ |-> IF e.occurrences = 0 THEN 1 ELSE e.occurrences]
\* a has a success_rate at least that of b
RateAtLeast(a, b) == a.success * b.occ >= b.success * a.occ
\* results.sort(key = success_rate, reverse = True): stable, highest rate first
RECURSIVE SortResults(_)
InsertResult(sorted, x) ==
    LET before == {i \in DOMAIN sorted : \A j \in 1..i : RateAtLeast(sorted[j], x)}
        n == Cardinality(before)
    IN SubSeq(sorted, 1, n) \o <<x>> \o SubSeq(sorted, n + 1, Len(sorted))
SortResults(results) ==
    IF results = <<>> THEN <<>>
    ELSE InsertResult(SortResults(SubSeq(results, 1, Len(results) - 1)),
                      results[Len(results)])
AggregateResearchSummary(records, left) ==
    LET summary == Summarize(records, NewSummary(left))
    IN [summary |-> summary,
        results |-> SortResults([i \in DOMAIN summary |-> ResultOf(summary[i])])]

InitAggregate ==
    /\ db_total_pnl = 0
    /\ config_file = [doc |-> ConfigDocument(1, TRUE, TRUE, FALSE, ""), complete |-> TRUE]
    /\ config = LoadConfig(config_file.doc, "env-key")
    /\ InitEngine
    /\ InitWorkflow
    /\ InitGateIdle
    /\ InitSignalIdle
    /\ InitSizeIdle
    /\ InitLockIdle
    /\ InitResearchIdle
    /\ InitValidateIdle
    /\ InitAnalysisIdle
    /\ InitAggregateIdle
    /\ InitRulesIdle
    /\ InitFetchIdle
AggregateCall ==
    /\ \E i \in DOMAIN RecordLists :
         /\ agg_calls[i] < MaxCalls
         /\ LET out == AggregateResearchSummary(RecordLists[i], agg_summary) IN
            /\ agg_calls' = [agg_calls EXCEPT ![i] = @ + 1]
            /\ agg_results' = [agg_results EXCEPT ![i] = @ \cup {out.results}]
            /\ agg_summary' = out.summary
    /\ UNCHANGED <<engineVars, trace, config, config_file, workflowVars, gateVars,
                   sig_in, sig_out, size_in, size_out, lockVars, researchVars,
                   validateVars, analysisVars, rulesVars, fetchVars>>
NextAggregate == AggregateCall
SpecAggregate == InitAggregate /\ [][NextAggregate]_vars

\* the (success_rate, avg_return) of each key in a result list, as fractions
RatesOf(results) ==
    {<<results[k].pattern_name, results[k].timeframe, results[k].success,
       results[k].avg_ret, results[k].occ>> : k \in DOMAIN results}

\* C23: every aggregation of the same records gives the same (success_rate,
\* avg_return) for every (pattern_name, timeframe) key, whatever was aggregated
\* before it.
C23_SameRecordsSameSummary ==
    \A i \in DOMAIN RecordLists :
        Cardinality({RatesOf(res) : res \in agg_results[i]}) <= 1
\* a list with two keys has been aggregated twice, with other lists in between
C23_Witness ==
    /\ agg_calls[4] = 2 /\ agg_calls[3] >= 1 /\ agg_calls[6] >= 1
    /\ \E res \in agg_results[4] :
         /\ Len(res) = 2
         /\ res[1].pattern_name = "hammer" /\ res[1].occurrences = 55
         /\ res[1].success = 3000 /\ res[2].pattern_name = "doji"

\* the closing orders of a handler that the entry path's test would take for
\* filled: status filled or closed (the exchange's record carries no more here)
ClosesFilledAsEntries(tr) ==
    {k \in DOMAIN tr : tr[k].ev = "close_result" /\ tr[k].what \in {"filled", "closed"}}

\* C24: a closing order that the entry path's predicate confirms (status filled
\* or closed) is a confirmed close: the position leaves the ledger and its P&L is
\* written to the trades table and credited.
C24_CloseConfirmedAsEntry ==
    [][\A k \in ClosesFilledAsEntries(trace') :
          /\ trace'[k].symbol \notin PosKeys(positions')
          /\ EventsOf(trace', "db_close", trace'[k].symbol) # {}
      ]_vars

\* risk carried by the positions already open: each was opened by the engine
\* with size 1, entry 100 and stop 95
OpenRisk(in) == Cardinality(in.open) * 1 * Abs(100 - 95)
NewRisk(in) == in.position_size * Abs(in.entry_price - in.stop_loss)
HeatExceeded(in) == (NewRisk(in) + OpenRisk(in)) * 100 > in.peak * MaxHeatPct

\* C25: validate_trade rejects a signal whenever the risk of the new position
\* added to the risk of the positions already open exceeds the maximum
\* portfolio-heat fraction (6%) of peak equity.
C25_HeatCountsOpenPositions ==
    (val_in.done /\ HeatExceeded(val_in)) => ~val_out

\* the static grouping table of _check_correlation_risk, and the base asset of
\* a symbol (the text before the dash)
CorrelatedAssets == {{"BTC", "WBTC"}, {"ETH", "WETH"}, {"BNB"}}
BaseAsset(sym) ==
    CASE sym = "BTC-USDT" -> "BTC"
      [] sym = "WBTC-USDT" -> "WBTC"
      [] sym = "ETH-USDT" -> "ETH"
      [] OTHER -> sym
GroupRepresented(in) ==
    \E g \in CorrelatedAssets :
        BaseAsset(in.symbol) \in g /\ \E o \in in.open : BaseAsset(o) \in g

\* C26: validate_trade rejects a signal whenever the base asset of its symbol
\* belongs to a correlation group of the grouping table in which a position is
\* already open.
C26_CorrelatedGroupRejected ==
    (val_in.done /\ GroupRepresented(val_in)) => ~val_out

\* ------------------------------------- the workflow with its history
\* The steps of the workflow with a history variable beside them: the batches
\* some approval has applied, kept for as long as the batch is pending.
LogApplied == applied_log' = (applied_log \cup AppliedIds(trace')) \cap DOMAIN pending'
NextResolve ==
    \/ Start
    \/ SendAiSuggestions /\ LogApplied
    \/ ClockTick /\ LogApplied
    \/ SuggestionsCommand /\ LogApplied
    \/ \E n \in BatchIds : ApproveCommand(n) /\ LogApplied
    \/ \E n \in BatchIds : ApproveFinish(n) /\ LogApplied
    \/ \E n \in BatchIds : RejectCommand(n) /\ LogApplied
SpecResolve == InitConfig /\ [][NextResolve]_vars

\* C27: each pending batch is resolved at most once: under any interleaving of
\* approve and reject commands, a step applies a batch only if the batch is
\* pending and no earlier step applied it, and a step reports a batch rejected
\* only if no step applied it; the rejected batch is pending no more, so no
\* later step applies it.
C27_BatchResolvedOnce ==
    [][\A n \in BatchIds :
          /\ n \in AppliedIds(trace') => n \in DOMAIN pending /\ n \notin applied_log
          /\ n \in RejectedIds(trace') => n \notin applied_log /\ n \notin DOMAIN pending'
      ]_vars

\* the execution checks of a handler on a sell signal
SellChecks(tr) == {k \in DOMAIN tr : tr[k].ev = "can_execute" /\ tr[k].side = "sell"}

\* C28: every Position in the ledger has side buy: the execution check refuses
\* a sell signal when its symbol has a position and when it has none, so no
\* entry order is placed on the sell side.
C28_LedgerHoldsOnlyBuys ==
    /\ \A i \in DOMAIN positions : positions[i].side = "buy"
    /\ \A k \in SellChecks(trace) : ~trace[k].approve
    /\ \A k \in EntryOrders(trace) : trace[k].side = "buy"
\* a sell signal for a symbol whose position is open was refused without an order
C28_Witness ==
    /\ \E k \in SellChecks(trace) : trace[k].symbol \in PosKeys(positions)
    /\ EntryOrders(trace) = {}
    /\ \E i \in DOMAIN positions : positions[i].side = "buy"

\* the live configuration and the stored document hold the same value of every
\* allow-listed parameter
AgreeOnAllowed(cfg, file) == \A q \in AllowedParams : cfg[q] = file.doc[q]

\* C29: an approval whose write of the configuration fails leaves the live
\* configuration as it was before the approval and reports the failure in
\* errors; after every approval the live configuration and the stored file
\* agree on every allow-listed parameter.
C29_FailedWriteLeavesConfig ==
    [][CommandStep(trace', "approve") =>
          /\ (AppliedIds(trace') # {} /\ Count(trace', "written") = 0)
                => Count(trace', "error") > 0 /\ config' = config
          /\ AgreeOnAllowed(config', config_file')
      ]_vars

\* the confirmation requirement is off, or at least two signals were counted
ConfirmationMet(in) == ~in.signal_confirmation \/ TotalSignals(in) >= 2

Readings == {"buy", "sell", "flat", "nan"}
RequiredRules == {"rsi", "macd", "bb"}
RulesCalls ==
    [computed : {TRUE}, rsi : Readings, macd : Readings, bb : Readings,
     stochastic_enabled : BOOLEAN, stoch : {"buy", "nan"},
     ai_action : {"none", "buy", "sell"}, ai_score : {5},
     signal_confirmation : BOOLEAN, done : {FALSE}]
    \cup [computed : {FALSE}, rsi : {"missing"}, macd : {"missing"}, bb : {"missing"},
          stochastic_enabled : BOOLEAN, stoch : {"missing"},
          ai_action : {"none", "buy", "sell"}, ai_score : {5},
          signal_confirmation : BOOLEAN, done : {FALSE}]

\* the rules whose block runs: the optional one only when enabled
RulesRun(in) == RequiredRules \cup (IF in.stochastic_enabled THEN {"stoch"} ELSE {})
\* a comparison with NaN is false in both branches of a rule
CastVotes(in, side) == Cardinality({r \in RulesRun(in) : in[r] = side})
\* indicators['rsi'] raises KeyError on the empty dict before any rule runs;
\* the handler of _generate_signal logs the error and returns None
GenerateByRules(in) ==
    IF ~in.computed
    THEN [raised |-> TRUE, produced |-> FALSE, action |-> "none",
          buy_votes |-> 0, sell_votes |-> 0]
    ELSE LET tally == [buy_votes |-> CastVotes(in, "buy"),
                       sell_votes |-> CastVotes(in, "sell"),
                       ai_action |-> in.ai_action, ai_score |-> in.ai_score,
                       signal_confirmation |-> in.signal_confirmation]
         IN [raised |-> FALSE, produced |-> SignalAction(tally) # "none",
             action |-> SignalAction(tally),
             buy_votes |-> tally.buy_votes, sell_votes |-> tally.sell_votes]

InitRules ==
    /\ db_total_pnl = 0
    /\ config_file = [doc |-> ConfigDocument(1, TRUE, TRUE, FALSE, ""), complete |-> TRUE]
    /\ config = LoadConfig(config_file.doc, "env-key")
    /\ InitEngine
    /\ InitWorkflow
    /\ InitGateIdle
    /\ InitSignalIdle
    /\ InitSizeIdle
    /\ InitLockIdle
    /\ InitResearchIdle
    /\ InitValidateIdle
    /\ InitAnalysisIdle
    /\ InitAggregateIdle
    /\ InitFetchIdle
    /\ rules_in \in RulesCalls
    /\ rules_out = NoRulesResult
RulesCall ==
    /\ ~rules_in.done
    /\ rules_in' = [rules_in EXCEPT !.done = TRUE]
    /\ rules_out' = GenerateByRules(rules_in)
    /\ UNCHANGED <<engineVars, trace, config, config_file, workflowVars, gateVars,
                   sig_in, sig_out, size_in, size_out, lockVars, researchVars,
                   validateVars, analysisVars, aggregateVars, fetchVars>>
NextRules == RulesCall
SpecRules == InitRules /\ [][NextRules]_vars

\* the rule has a usable series: it is there and its last value is a number
Usable(in, r) == in[r] \notin {"missing", "nan"}
\* the votes of the rules that have a usable series
VotesOfUsable(in, side) == Cardinality({r \in RulesRun(in) : Usable(in, r) /\ in[r] = side})
TallyOfUsable(in) ==
    [buy_votes |-> VotesOfUsable(in, "buy"), sell_votes |-> VotesOfUsable(in, "sell"),
     ai_action |-> in.ai_action, ai_score |-> in.ai_score,
     signal_confirmation |-> in.signal_confirmation]

\* C31: when an indicator series is missing or too short only its rule abstains:
\* the generator raises no error, the rules with a usable series cast their
\* votes, and a signal is produced whenever the votes cast and the AI opinion
\* suffice for one.
C31_OnlyTheRuleAbstains ==
    rules_in.done =>
        /\ ~rules_out.raised
        /\ rules_out.buy_votes = VotesOfUsable(rules_in, "buy")
        /\ rules_out.sell_votes = VotesOfUsable(rules_in, "sell")
        /\ rules_out.produced = (SignalAction(TallyOfUsable(rules_in)) # "none")

\* the balance reads of a handler, the confirmed fills and closes, and the last read
BalanceReads(tr) == {k \in DOMAIN tr : tr[k].ev = "balance"}
ConfirmedTrades(tr) ==
    {k \in OrderResults(tr) : ConfirmedFill(tr[k])}
        \cup {k \in DOMAIN tr : tr[k].ev = "close_result" /\ CloseConfirmed(tr[k].what)}
LastRead(tr) == tr[CHOOSE k \in BalanceReads(tr) : \A j \in BalanceReads(tr) : j <= k].conf
PositiveReads(tr) == {k \in BalanceReads(tr) : tr[k].conf > 0}
LastPositiveRead(tr) ==
    tr[CHOOSE k \in PositiveReads(tr) : \A j \in PositiveReads(tr) : j <= k].conf

\* C32 as stated: after every confirmed entry fill and every confirmed close the
\* balance is read from the exchange and the peak equity equals the value read.
C32_PeakIsBalanceRead ==
    [][ConfirmedTrades(trace') # {} =>
          /\ \A k \in ConfirmedTrades(trace') : \E j \in BalanceReads(trace') : j > k
          /\ peak_equity' = LastRead(trace')
      ]_vars

\* C32: after every confirmed entry fill and every confirmed close the balance
\* is read from the exchange; the peak equity then equals the last value read
\* that is positive, and a read that gives zero (the call failed, or nothing is
\* free) leaves the peak equity as it was.
C32_PeakIsPositiveBalanceRead ==
    [][ConfirmedTrades(trace') # {} =>
          /\ \A k \in ConfirmedTrades(trace') : \E j \in BalanceReads(trace') : j > k
          /\ peak_equity' = IF PositiveReads(trace') # {} THEN LastPositiveRead(trace')
                            ELSE peak_equity
          /\ config'.initial_capital = peak_equity'
      ]_vars
\* a close was confirmed and the peak equity is the balance read after it
C32_Witness ==
    /\ \E k \in DOMAIN trace : trace[k].ev = "close_result" /\ CloseConfirmed(trace[k].what)
    /\ PositiveReads(trace) # {}
    /\ peak_equity = LastPositiveRead(trace)
    /\ config.initial_capital = peak_equity

\* C33: while trading is paused no handler places an entry order; a tick that
\* starts paused still goes to the monitoring of every open position, a
\* position whose price hit its stop or take-profit still gets its closing
\* order, and the risk checks still run; a tick that starts after the resume
\* processes the active pairs again.
C33_PauseStopsEntriesOnly ==
    [][/\ trading_paused => EntryOrders(trace') = {}
       /\ (pc = "loop" /\ pc' # "loop" /\ running /\ trading_paused)
             => pc' = "monitor" /\ mon_queue' = PosSymbols(positions)
       /\ (pc = "monitor" /\ mon_queue # <<>> /\ trading_paused)
             => \A k \in DOMAIN trace' : trace'[k].ev = "ticker" =>
                    LET marked == MarkedAt(PosGet(positions, Head(mon_queue)), trace'[k].conf)
                    IN CloseOrderFor(trace', marked) <=> (StopHit(marked) \/ TakeProfitHit(marked))
       /\ (pc = "monitor" /\ pc' = "loop" /\ trading_paused /\ running)
             => running' = (~DailyLossReached(daily_pnl, config)
                             /\ ~(db_total_pnl <= -config.max_drawdown))
       /\ (pc = "loop" /\ pc' # "loop" /\ running /\ ~trading_paused /\ active_pairs' # <<>>)
             => pc' = "process" /\ proc_queue' = active_pairs'
      ]_vars

\* C34: the number of open positions never exceeds risk_management.max_positions.
C34_PositionsWithinCap == Len(positions) <= config.max_positions
\* the ledger is full and a buy signal for a symbol without a position was refused
C34_Witness ==
    /\ Len(positions) = config.max_positions
    /\ \E k \in DOMAIN trace :
          /\ trace[k].ev = "can_execute" /\ trace[k].side = "buy" /\ ~trace[k].approve
          /\ trace[k].symbol \notin PosKeys(positions)
    /\ EntryOrders(trace) = {}

\* C35: validate_trade returns true only for signals whose reward/risk ratio is
\* at least the configured minimum and whose stop distance, as a fraction of
\* the entry price, lies between min_stop_loss_pct and max_stop_loss_pct, for
\* every entry price including zero.
C35_ValidatedWithinLimits ==
    val_in.done /\ val_out =>
        LET risk == Abs(val_in.entry_price - val_in.stop_loss)
            reward == Abs(val_in.take_profit - val_in.entry_price)
        IN /\ reward * 10 >= MinRiskReward * risk
           /\ risk * 1000 >= MinStopPermille * val_in.entry_price
           /\ risk * 1000 <= MaxStopPermille * val_in.entry_price

\* ------------------------------------------------ the except branch of _main_loop
\* What escapes a step of the tick (a missing configuration key at the top of the
\* loop, a malformed research interval in _maybe_run_research) is caught by the
\* loop's own handler: logged, sent through discord.send_error, and after
\* sleep(5) the while test is evaluated again. The rest of the tick is skipped.
MainLoopErrorEv ==
    [ev |-> "log_error", symbol |-> "", side |-> "", kind |-> "", what |-> "Error in main loop",
     reason |-> "", approve |-> FALSE, conf |-> 0]
SleepEv(secs) ==
    [ev |-> "sleep", symbol |-> "", side |-> "", kind |-> "", what |-> "",
     reason |-> "", approve |-> FALSE, conf |-> secs]
\* a handler that gives up: the loop is left on the first error
TickErrorFatal ==
    /\ pc \in {"loop", "process", "monitor"}
    /\ trace' = <<MainLoopErrorEv, NotifyEv("Error Alert", ""), SleepEv(5)>>
    /\ pc' = "exited"
    /\ proc_queue' = <<>>
    /\ mon_queue' = <<>>
    /\ UNCHANGED <<running, trading_paused, active_pairs, restricted_pairs, positions,
                   daily_pnl, total_trades, peak_equity, db_total_pnl, halt_reason,
                   daily_breached, config, config_file, workflowVars, gateVars, unitVars>>
TickError ==
    /\ pc \in {"loop", "process", "monitor"}
    /\ trace' = <<MainLoopErrorEv, NotifyEv("Error Alert", ""), SleepEv(5)>>
    /\ pc' = "loop"
    /\ proc_queue' = <<>>
    /\ mon_queue' = <<>>
    /\ UNCHANGED <<running, trading_paused, active_pairs, restricted_pairs, positions,
                   daily_pnl, total_trades, peak_equity, db_total_pnl, halt_reason,
                   daily_breached, config, config_file, workflowVars, gateVars, unitVars>>
InitTick ==
    /\ db_total_pnl = 0
    /\ config_file = [doc |-> ConfigDocument(1, FALSE, TRUE, FALSE, ""), complete |-> TRUE]
    /\ config = LoadConfig(config_file.doc, "env-key")
    /\ InitEngine
    /\ InitWorkflow
    /\ InitGateIdle
    /\ InitUnitsIdle
NextTick ==
    \/ Next
    \/ TickError
SpecTick == InitTick /\ [][NextTick]_vars

MainLoopErrors(tr) == {k \in DOMAIN tr : tr[k] = MainLoopErrorEv}
ReportedAfter(tr, k) == {j \in DOMAIN tr : j > k /\ tr[j] = NotifyEv("Error Alert", "")}
BackoffAfter(tr, k) == {j \in DOMAIN tr : j > k /\ tr[j].ev = "sleep" /\ tr[j].conf > 0}

\* C36: an unexpected error raised while a tick is processed is caught and
\* reported, leaves the running flag unchanged, and the loop goes on to a next
\* tick after a backoff instead of terminating; the loop ends only when the
\* running flag has been set to false.
C36_TickErrorKeepsLoopAlive ==
    [][/\ \A k \in MainLoopErrors(trace') :
             /\ ReportedAfter(trace', k) # {}
             /\ BackoffAfter(trace', k) # {}
             /\ running' = running
             /\ pc' = "loop"
       /\ (pc # "exited" /\ pc' = "exited") => (pc = "loop" /\ ~running)
       /\ (pc = "loop" /\ running) => ENABLED (LoopTop /\ pc' # "exited")
      ]_vars
\* a tick that held an open position has raised, and the loop is at its while
\* test again with the running flag still set
C36_Witness ==
    /\ MainLoopErrors(trace) # {}
    /\ pc = "loop" /\ running
    /\ positions # <<>>

\* the symbols whose closing order came back unconfirmed in this handler
UnconfirmedCloses(tr) ==
    {tr[k].symbol : k \in {j \in DOMAIN tr : tr[j].ev = "close_result" /\ tr[j].what # "filled"}}
SameTerms(p, q) ==
    /\ p.symbol = q.symbol /\ p.side = q.side /\ p.size = q.size
    /\ p.entry_price = q.entry_price /\ p.stop_loss = q.stop_loss
    /\ p.take_profit = q.take_profit

\* C37: when a closing order is not confirmed (no order returned, or the order
\* is not reported filled), _close_position leaves the ledger and the daily P&L
\* unchanged: the position stays open and is evaluated again on the next
\* monitoring tick.
C37_UnconfirmedCloseChangesNothing ==
    [][/\ \A s \in UnconfirmedCloses(trace') :
             /\ s \in PosKeys(positions) /\ s \in PosKeys(positions')
             /\ SameTerms(PosGet(positions', s), PosGet(positions, s))
       /\ (UnconfirmedCloses(trace') # {} /\ ConfirmedCloses(trace') = {}) =>
             /\ PosKeys(positions') = PosKeys(positions)
             /\ daily_pnl' = daily_pnl
             /\ db_total_pnl' = db_total_pnl
             /\ total_trades' = total_trades
       /\ (pc # "monitor" /\ pc' = "monitor") =>
             \A s \in PosKeys(positions') : \E i \in DOMAIN mon_queue' : mon_queue'[i] = s
      ]_vars
\* a monitoring pass found a position at its stop, the closing order came back
\* unconfirmed, and the position is still in the ledger
C37_Witness ==
    /\ pc = "monitor"
    /\ \E s \in UnconfirmedCloses(trace) :
          /\ s \in PosKeys(positions)
          /\ StopHit(PosGet(positions, s))
          /\ CloseOrderFor(trace, PosGet(positions, s))
    /\ ConfirmedCloses(trace) = {}
    /\ daily_pnl = 0

\* ------------------------------------------- PatternResearcher.run: the fetches
\* One step per await of the history fetch. Bars are counted in units of which a
\* full page holds PageLimit (the limit of 100 of _fetch_history); the target is
\* min(_estimate_candles, max_candles_per_timeframe) in the same units.
MaxRuns == 2
PageLimit == 2
Timeframes == <<"1m", "5m">>
MaxRequestsChoices == {0, 2, 3}
TargetChoices == {2, 3}
notFetchVars == <<engineVars, trace, config, config_file, workflowVars, gateVars,
                  sig_in, sig_out, size_in, size_out, lockVars, researchVars, validateVars,
                  analysisVars, aggregateVars, rulesVars>>

\* _save_skip_symbols: the file gets the list, or the write fails and is logged
SaveSkipSymbols(file, symbols, written) == IF written THEN symbols ELSE file
\* _load_skip_symbols: the list of the file, or none when it cannot be read
LoadSkipSymbols(file, readable) == IF readable THEN file ELSE {}

InitFetch ==
    /\ db_total_pnl = 0
    /\ config_file = [doc |-> ConfigDocument(1, TRUE, TRUE, FALSE, ""), complete |-> TRUE]
    /\ config = LoadConfig(config_file.doc, "env-key")
    /\ InitEngine
    /\ InitWorkflow
    /\ InitGateIdle
    /\ InitSignalIdle
    /\ InitSizeIdle
    /\ InitLockIdle
    /\ InitResearchIdle
    /\ InitValidateIdle
    /\ InitAnalysisIdle
    /\ InitAggregateIdle
    /\ InitRulesIdle
    /\ fetch_pc = "idle"
    /\ fetch_syms = <<>>
    /\ fetch_tfs = <<>>
    /\ request_count = 0
    /\ fetch = NoFetch
    /\ skip_file \in {{}, {"ETH-USDT"}}
    /\ skip_symbols = LoadSkipSymbols(skip_file, TRUE)
    /\ request_log = <<>>
    /\ fetch_runs = 0
    /\ \E mr \in MaxRequestsChoices, t \in TargetChoices :
          fetch_cfg = [max_requests |-> mr, target_candles |-> t]

\* a new PatternResearcher (the process was started again): the list is read back
ResearcherInit ==
    /\ fetch_pc = "idle"
    /\ \E readable \in BOOLEAN : skip_symbols' = LoadSkipSymbols(skip_file, readable)
    /\ UNCHANGED <<fetch_pc, fetch_syms, fetch_tfs, request_count, fetch, skip_file,
                   request_log, fetch_runs, fetch_cfg, notFetchVars>>

\* run up to its for loop; a run that finds no symbol returns at once and is left out
ResearchRunStart ==
    /\ fetch_pc = "idle" /\ fetch_runs < MaxRuns
    /\ fetch_runs' = fetch_runs + 1
    /\ request_count' = 0
    /\ \E syms \in PairLists(Symbols) \ {<<>>} : fetch_syms' = syms
    /\ fetch_tfs' = <<>>
    /\ fetch' = NoFetch
    /\ fetch_pc' = "symbols"
    /\ UNCHANGED <<skip_symbols, skip_file, request_log, fetch_cfg, notFetchVars>>

\* the head of the for loop over the symbols, with the skip-list test
SymbolStep ==
    /\ fetch_pc = "symbols"
    /\ IF fetch_syms = <<>>
       THEN fetch_pc' = "idle" /\ UNCHANGED <<fetch_syms, fetch_tfs>>
       ELSE IF Head(fetch_syms) \in skip_symbols
       THEN fetch_syms' = Tail(fetch_syms) /\ UNCHANGED <<fetch_pc, fetch_tfs>>
       ELSE fetch_tfs' = Timeframes /\ fetch_pc' = "timeframes" /\ UNCHANGED fetch_syms
    /\ UNCHANGED <<request_count, fetch, skip_symbols, skip_file, request_log, fetch_runs,
                   fetch_cfg, notFetchVars>>

\* the head of the for loop over the timeframes with its budget test, and past
\* that loop the test that ends the run
TimeframeStep ==
    /\ fetch_pc = "timeframes"
    /\ LET remaining_requests == fetch_cfg.max_requests - request_count IN
       IF fetch_tfs = <<>> \/ remaining_requests <= 0
       THEN /\ fetch_tfs' = <<>>
            /\ fetch' = fetch
            /\ IF request_count >= fetch_cfg.max_requests
               THEN fetch_pc' = "idle" /\ fetch_syms' = <<>>
               ELSE fetch_pc' = "symbols" /\ fetch_syms' = Tail(fetch_syms)
       ELSE /\ fetch' = [used |-> 0, candles |-> 0, budget |-> remaining_requests]
            /\ fetch_pc' = "fetch"
            /\ UNCHANGED <<fetch_syms, fetch_tfs>>
    /\ UNCHANGED <<request_count, skip_symbols, skip_file, request_log, fetch_runs,
                   fetch_cfg, notFetchVars>>

\* _fetch_history returns: run adds the requests used and goes to the next timeframe
FetchReturn(used) ==
    /\ request_count' = request_count + used
    /\ fetch_tfs' = Tail(fetch_tfs)
    /\ fetch_pc' = "timeframes"

\* a while test that does not look at the budget
MorePagesNoBudget(f) == f.candles < fetch_cfg.target_candles
\* the while test of _fetch_history
MorePages(f) == f.candles < fetch_cfg.target_candles /\ f.used < f.budget

\* one round of the while loop of _fetch_history
FetchPage ==
    /\ fetch_pc = "fetch"
    /\ IF MorePages(fetch)
       THEN \E batch \in 0..PageLimit, written \in BOOLEAN :
            LET used_requests == fetch.used + 1
                unavailable == batch = 0 /\ used_requests = 1
                skipped == IF unavailable THEN skip_symbols \cup {Head(fetch_syms)}
                           ELSE skip_symbols
            IN /\ request_log' = Append(request_log, [run |-> fetch_runs,
                                           symbol |-> Head(fetch_syms),
                                           timeframe |-> Head(fetch_tfs)])
               /\ fetch' = [fetch EXCEPT !.used = used_requests, !.candles = @ + batch]
               /\ skip_symbols' = skipped
               /\ skip_file' = IF unavailable THEN SaveSkipSymbols(skip_file, skipped, written)
                               ELSE skip_file
               /\ IF batch < PageLimit
                  THEN FetchReturn(used_requests)
                  ELSE UNCHANGED <<request_count, fetch_tfs, fetch_pc>>
       ELSE /\ FetchReturn(fetch.used)
            /\ UNCHANGED <<fetch, skip_symbols, skip_file, request_log>>
    /\ UNCHANGED <<fetch_syms, fetch_runs, fetch_cfg, notFetchVars>>

NextFetch ==
    \/ ResearcherInit
    \/ ResearchRunStart
    \/ SymbolStep
    \/ TimeframeStep
    \/ FetchPage
SpecFetch == InitFetch /\ [][NextFetch]_vars

\* the history request made by this step, if it made one
Requested(log, log2) == Len(log2) > Len(log)
LastRequest(log) == log[Len(log)]
RequestsOfRun(log, r) == Cardinality({k \in DOMAIN log : log[k].run = r})

\* C38: a symbol whose first history page comes back empty is added to the
\* persistent skip-list, and no history request is made for that symbol
\* afterwards, neither in the rest of the same research run nor in any later run.
C38_SkippedSymbolNeverRequested ==
    [][Requested(request_log, request_log') =>
          /\ (fetch'.used = 1 /\ fetch'.candles = 0)
                => LastRequest(request_log').symbol \in skip_symbols'
          /\ LastRequest(request_log').symbol \notin skip_symbols
      ]_vars

\* C39: during a research run the number of history requests issued, summed over
\* all symbols and timeframes, never exceeds max_requests_per_run, and pagination
\* for one (symbol, timeframe) stops once the target bar count is reached or the
\* remaining budget is used up.
C39_RequestsWithinBudget ==
    [][/\ RequestsOfRun(request_log', fetch_runs') <= fetch_cfg'.max_requests
       /\ Requested(request_log, request_log') =>
             /\ fetch.candles < fetch_cfg.target_candles
             /\ fetch.used < fetch.budget
             /\ fetch.budget = fetch_cfg.max_requests - request_count
       /\ (fetch_pc = "fetch" /\ (fetch.candles >= fetch_cfg.target_candles
                                   \/ fetch.used >= fetch.budget))
             => ~Requested(request_log, request_log') /\ fetch_pc' # "fetch"
      ]_vars
\* a run has used its whole budget of three requests, the last fetch cut short
\* of its target by the budget
C39_Witness ==
    /\ fetch_cfg.max_requests = 3
    /\ RequestsOfRun(request_log, fetch_runs) = 3
    /\ request_count = 3
    /\ fetch.used = fetch.budget
    /\ fetch.candles < fetch_cfg.target_candles
    /\ fetch.candles > 0

\* the event loop runs a task that is ready, and a research pass ends: its loops
\* are bounded by the request budget and every request has a timeout
FairResearch == WF_vars(ResearchTask)
SpecResearchFair == InitResearch /\ [][NextResearch]_vars /\ FairResearch

\* C40: the research running-flag is true exactly while a research task is in
\* flight: it is set when the task is launched and is eventually reset when the
\* task ends, whether the pass completes or raises, so a failed pass never
\* prevents a later pass from starting.
C40_FlagFollowsTheTask ==
    /\ [](research_running <=> research_tasks # <<>>)
    /\ [][/\ Len(research_tasks') > Len(research_tasks) => research_running'
          /\ Len(research_tasks') < Len(research_tasks) =>
                ~research_running' /\ research_last' \in PassOutcomes
         ]_vars
    /\ [](~research_running /\ pc = "loop" => ENABLED MaybeRunResearch)
    /\ (research_running ~> ~research_running)
\* a pass is in flight after an earlier pass has raised
C40_Witness ==
    /\ research_last = "raised"
    /\ research_running
    /\ research_tasks = <<"running">>

====
